---- MODULE Spec2Model ----
(***************************************************************************)
(* PAGICoreModel (src/src/lib.rs): the fact store over the embedded        *)
(* key-value database, the capability gate, the symbolic rule engine and   *)
(* the tiered planner, and the listener of the status channel, for one     *)
(* instance, for two instances in one process, and for concurrent callers. *)
(*                                                                         *)
(* Strings are modelled by their bytes.  A String is a record of one of    *)
(* two kinds: "raw" (chars: the byte sequence of a text that is not a JSON *)
(* document) and "json" (the text of a JSON document: `pad` leading spaces *)
(* followed by the compact serialization of `value`).  serde_json's        *)
(* from_str and to_string are modelled on this representation; every other *)
(* string operation of the code (to_lowercase, trim, contains, ==, sort)   *)
(* works on the bytes.  Bytes are ASCII.                                   *)
(***************************************************************************)
EXTENDS Integers, Sequences, FiniteSets, TLC

VARIABLES
    facts_tree,  \* the "facts" tree of knowledge_base as the process sees it, in key order
    disk,        \* the part of the tree that has been flushed to disk
    next_id,     \* the counter behind knowledge_base.generate_id()
    history,     \* every entry inserted and still stored, in write order, with whether record returned Ok
    last,        \* the last call and what it returned to its caller
    ipc_listener,     \* the field ipc_listener: <<>> for None, <<l>> for Some(listener l)
    ipc_initialized,  \* the field ipc_initialized
    socket_path,      \* the file at PAGI_IPC_NAME: <<>> when there is none, <<l>> the socket of
                      \* listener l (0: a socket left by an earlier process)
    bound_listeners,  \* how many listeners this process has bound; listener l is the l-th
    ipc_log,          \* the calls of init_ipc_server and take_ipc_listener on this instance
    helper_core,      \* a second instance made by from_db in the same process: whether it is
                      \* alive, its fields ipc_listener and ipc_initialized, and its calls
    in_flight         \* the calls of record_fact that are between generate_id and insert:
                      \* for each its caller, the fact and the key it is about to insert

ipc_vars == <<ipc_listener, ipc_initialized, socket_path, bound_listeners, ipc_log, helper_core>>

vars == <<facts_tree, disk, next_id, history, last, ipc_listener, ipc_initialized,
          socket_path, bound_listeners, ipc_log, helper_core, in_flight>>

-----------------------------------------------------------------------------
(* Bounds of the model *)

\* width in bits of the scaled-down u64 (and half the width of the scaled-down u128)
TsBits == 3
\* the most entries the facts tree holds
MaxFacts == 2
\* the longest fact list handed to apply_rules_to_facts
MaxRuleFacts == 3
\* the longest plan handed to apply_symbolic_directives_to_plan
MaxPlanLen == 2
\* the most calls of init_ipc_server and take_ipc_listener on one instance
MaxIpcCalls == 4

RECURSIVE Pow2(_)
Pow2(n) == IF n = 0 THEN 1 ELSE 2 * Pow2(n - 1)

U64_MAX == Pow2(TsBits) - 1
U128_MAX == Pow2(2 * TsBits) - 1

-----------------------------------------------------------------------------
(* Byte strings *)

Str(chars) == [kind |-> "raw", chars |-> chars]
Chars(s) == s.chars

Range(seq) == {seq[i] : i \in DOMAIN seq}

\* char::to_lowercase on ASCII
LowerByte(c) == IF c >= 65 /\ c <= 90 THEN c + 32 ELSE c
to_lowercase(s) == Str([i \in DOMAIN Chars(s) |-> LowerByte(Chars(s)[i])])

\* char::is_whitespace on ASCII
IsWhitespace(c) == c \in {9, 10, 11, 12, 13, 32}

RECURSIVE TrimStart(_)
TrimStart(cs) == IF cs # <<>> /\ IsWhitespace(Head(cs)) THEN TrimStart(Tail(cs)) ELSE cs

RECURSIVE TrimEnd(_)
TrimEnd(cs) ==
    IF cs # <<>> /\ IsWhitespace(cs[Len(cs)]) THEN TrimEnd(SubSeq(cs, 1, Len(cs) - 1)) ELSE cs

\* str::trim; the text of a JSON document loses its leading spaces and nothing else
trim(s) ==
    IF s.kind = "json" THEN [s EXCEPT !.pad = 0] ELSE Str(TrimEnd(TrimStart(Chars(s))))

\* str::is_empty; a JSON document is never the empty text
is_empty(s) == s.kind = "raw" /\ Chars(s) = <<>>

\* str::contains(&str)
contains(s, pat) ==
    LET cs == Chars(s)
        p == Chars(pat)
    IN \E i \in 0..(Len(cs) - Len(p)) : \A k \in DOMAIN p : cs[i + k] = p[k]

\* Ord for byte sequences: lexicographic, a proper prefix first
RECURSIVE BytesLess(_, _)
BytesLess(a, b) ==
    IF b = <<>> THEN FALSE
    ELSE IF a = <<>> THEN TRUE
    ELSE IF Head(a) # Head(b) THEN Head(a) < Head(b)
    ELSE BytesLess(Tail(a), Tail(b))

StrLess(s, t) == BytesLess(Chars(s), Chars(t))

-----------------------------------------------------------------------------
(* String literals of the source *)

\* "siem"
kw_siem == Str(<<115, 105, 101, 109>>)
\* "crowdstrike"
kw_crowdstrike == Str(<<99, 114, 111, 119, 100, 115, 116, 114, 105, 107, 101>>)
\* "rapid7"
kw_rapid7 == Str(<<114, 97, 112, 105, 100, 55>>)
\* "deep"
kw_deep == Str(<<100, 101, 101, 112>>)
\* "split"
kw_split == Str(<<115, 112, 108, 105, 116>>)
\* "concurr"
kw_concurr == Str(<<99, 111, 110, 99, 117, 114, 114>>)
\* "SearchAgent"
SearchAgent == Str(<<83, 101, 97, 114, 99, 104, 65, 103, 101, 110, 116>>)
\* "CalendarAgent"
CalendarAgent == Str(<<67, 97, 108, 101, 110, 100, 97, 114, 65, 103, 101, 110, 116>>)
\* "CybersecurityAgent"
CybersecurityAgent == Str(<<67, 121, 98, 101, 114, 115, 101, 99, 117, 114, 105, 116, 121, 65,
    103, 101, 110, 116>>)
\* "ReflectionFact"
ReflectionFactType == Str(<<82, 101, 102, 108, 101, 99, 116, 105, 111, 110, 70, 97, 99, 116>>)
\* "Please research the top anti-aging compounds and schedule a team meeting for next week to present the findings."
example_prompt == Str(<<80, 108, 101, 97, 115, 101, 32, 114, 101, 115, 101, 97, 114, 99, 104,
    32, 116, 104, 101, 32, 116, 111, 112, 32, 97, 110, 116, 105, 45, 97, 103, 105, 110, 103, 32,
    99, 111, 109, 112, 111, 117, 110, 100, 115, 32, 97, 110, 100, 32, 115, 99, 104, 101, 100,
    117, 108, 101, 32, 97, 32, 116, 101, 97, 109, 32, 109, 101, 101, 116, 105, 110, 103, 32,
    102, 111, 114, 32, 110, 101, 120, 116, 32, 119, 101, 101, 107, 32, 116, 111, 32, 112, 114,
    101, 115, 101, 110, 116, 32, 116, 104, 101, 32, 102, 105, 110, 100, 105, 110, 103, 115,
    46>>)
\* "Triage alert"
s_triage_alert == Str(<<84, 114, 105, 97, 103, 101, 32, 97, 108, 101, 114, 116>>)
\* "top anti-aging compounds"
s_base_query == Str(<<116, 111, 112, 32, 97, 110, 116, 105, 45, 97, 103, 105, 110, 103, 32, 99,
    111, 109, 112, 111, 117, 110, 100, 115>>)
\* "summary of leading compounds with citations"
s_base_deliverable == Str(<<115, 117, 109, 109, 97, 114, 121, 32, 111, 102, 32, 108, 101, 97,
    100, 105, 110, 103, 32, 99, 111, 109, 112, 111, 117, 110, 100, 115, 32, 119, 105, 116, 104,
    32, 99, 105, 116, 97, 116, 105, 111, 110, 115>>)
\* "Anti-aging compounds research review"
s_cal_title == Str(<<65, 110, 116, 105, 45, 97, 103, 105, 110, 103, 32, 99, 111, 109, 112, 111,
    117, 110, 100, 115, 32, 114, 101, 115, 101, 97, 114, 99, 104, 32, 114, 101, 118, 105, 101,
    119>>)
\* "next week"
s_cal_timeframe == Str(<<110, 101, 120, 116, 32, 119, 101, 101, 107>>)
\* "Present research findings and next steps"
s_cal_agenda == Str(<<80, 114, 101, 115, 101, 110, 116, 32, 114, 101, 115, 101, 97, 114, 99,
    104, 32, 102, 105, 110, 100, 105, 110, 103, 115, 32, 97, 110, 100, 32, 110, 101, 120, 116,
    32, 115, 116, 101, 112, 115>>)
\* "top anti-aging compounds overview"
s_q_overview == Str(<<116, 111, 112, 32, 97, 110, 116, 105, 45, 97, 103, 105, 110, 103, 32, 99,
    111, 109, 112, 111, 117, 110, 100, 115, 32, 111, 118, 101, 114, 118, 105, 101, 119>>)
\* "high-level summary"
s_d_overview == Str(<<104, 105, 103, 104, 45, 108, 101, 118, 101, 108, 32, 115, 117, 109, 109,
    97, 114, 121>>)
\* "anti-aging: rapamycin metformin spermidine"
s_q_mech == Str(<<97, 110, 116, 105, 45, 97, 103, 105, 110, 103, 58, 32, 114, 97, 112, 97, 109,
    121, 99, 105, 110, 32, 109, 101, 116, 102, 111, 114, 109, 105, 110, 32, 115, 112, 101, 114,
    109, 105, 100, 105, 110, 101>>)
\* "mechanisms + evidence"
s_d_mech == Str(<<109, 101, 99, 104, 97, 110, 105, 115, 109, 115, 32, 43, 32, 101, 118, 105,
    100, 101, 110, 99, 101>>)
\* "anti-aging: senolytics fisetin quercetin"
s_q_seno == Str(<<97, 110, 116, 105, 45, 97, 103, 105, 110, 103, 58, 32, 115, 101, 110, 111,
    108, 121, 116, 105, 99, 115, 32, 102, 105, 115, 101, 116, 105, 110, 32, 113, 117, 101, 114,
    99, 101, 116, 105, 110>>)
\* "senolytic candidates summary"
s_d_seno == Str(<<115, 101, 110, 111, 108, 121, 116, 105, 99, 32, 99, 97, 110, 100, 105, 100,
    97, 116, 101, 115, 32, 115, 117, 109, 109, 97, 114, 121>>)
\* "rule_failure_rerun_deep"
rule1_id == Str(<<114, 117, 108, 101, 95, 102, 97, 105, 108, 117, 114, 101, 95, 114, 101, 114,
    117, 110, 95, 100, 101, 101, 112>>)
\* "AnalysisResult"
s_AnalysisResult == Str(<<65, 110, 97, 108, 121, 115, 105, 115, 82, 101, 115, 117, 108, 116>>)
\* "Failure"
s_Failure == Str(<<70, 97, 105, 108, 117, 114, 101>>)
\* "Rerun: Deep Search"
s_rerun_deep_search == Str(<<82, 101, 114, 117, 110, 58, 32, 68, 101, 101, 112, 32, 83, 101, 97,
    114, 99, 104>>)
\* "rule_cyber_alert_triage"
rule2_id == Str(<<114, 117, 108, 101, 95, 99, 121, 98, 101, 114, 95, 97, 108, 101, 114, 116, 95,
    116, 114, 105, 97, 103, 101>>)
\* "CYBER_ALERT"
s_CYBER_ALERT == Str(<<67, 89, 66, 69, 82, 95, 65, 76, 69, 82, 84>>)
\* "TASK: CybersecurityAgent, INPUT: Triage alert"
s_task_cyber == Str(<<84, 65, 83, 75, 58, 32, 67, 121, 98, 101, 114, 115, 101, 99, 117, 114,
    105, 116, 121, 65, 103, 101, 110, 116, 44, 32, 73, 78, 80, 85, 84, 58, 32, 84, 114, 105, 97,
    103, 101, 32, 97, 108, 101, 114, 116>>)

-----------------------------------------------------------------------------
(* serde_json: values, from_str, to_string *)

JNull == [t |-> "null"]
JBool(b) == [t |-> "bool", b |-> b]
JNum(n) == [t |-> "num", n |-> n]
JStr(s) == [t |-> "str", s |-> s]
JArr(a) == [t |-> "arr", a |-> a]
\* m: the map of the object, a function from keys to values
JObj(m) == [t |-> "obj", m |-> m]

Ok(v) == [ok |-> TRUE, val |-> v]
Err(e) == [ok |-> FALSE, err |-> e]

\* serde_json::from_str::<Value>: only the text of a JSON document parses
from_str(s) == IF s.kind = "json" THEN Ok(s.value) ELSE Err("not JSON")

\* Value::to_string: the compact serialization, without padding
to_string(v) == [kind |-> "json", pad |-> 0, value |-> v]

\* Map::insert: adds the key or overwrites its value
MapInsert(m, k, v) == [x \in (DOMAIN m) \cup {k} |-> IF x = k THEN v ELSE m[x]]

\* Value::get(key) is Some for an object that has the key
HasKey(v, k) == v.t = "obj" /\ k \in DOMAIN v.m

-----------------------------------------------------------------------------
(* Authorization *)

AuthScope == {"ReadFacts", "WriteFacts", "WritePolicy", "ExternalAPI", "RoboticsAction"}

\* can_access with WriteFacts implying ReadFacts
can_access_write_implies_read(identity, required) ==
    IF required \in identity.scopes \/ (required = "ReadFacts" /\ "WriteFacts" \in identity.scopes)
    THEN Ok("unit")
    ELSE Err(<<"Permission denied", identity.id, required>>)

\* AuthorizationGatekeeper::can_access
can_access(identity, required) ==
    IF required \in identity.scopes
    THEN Ok("unit")
    ELSE Err(<<"Permission denied", identity.id, required>>)

\* PAGICoreModel::check_authorization: the gatekeeper's answer, logged when it is a denial
check_authorization(identity, scope) == can_access(identity, scope)

-----------------------------------------------------------------------------
(* Keys and values of the facts tree *)

\* the width of the timestamp in a key: {:020}
KeyTsWidth == 20
\* the byte '_' that follows the timestamp in a key
Underscore == 95

RECURSIVE Decimal(_)
\* Display for an unsigned integer: its decimal digits
Decimal(n) == IF n < 10 THEN <<48 + n>> ELSE Append(Decimal(n \div 10), 48 + (n % 10))

RECURSIVE ZeroPad(_, _)
ZeroPad(digits, width) == IF Len(digits) >= width THEN digits ELSE ZeroPad(<<48>> \o digits, width)

\* FormatKey without the id
FormatKey_timestamp_only(timestamp, id) == ZeroPad(Decimal(timestamp), KeyTsWidth) \o <<Underscore>>

\* format!("{:020}_{id}", fact.timestamp)
FormatKey(timestamp, id) == ZeroPad(Decimal(timestamp), KeyTsWidth) \o <<Underscore>> \o Decimal(id)

\* serde_json::to_vec(&fact)
SerializeFact(fact) ==
    to_string(JObj([agent_id |-> JStr(fact.agent_id),
                    timestamp |-> JNum(fact.timestamp),
                    fact_type |-> JStr(fact.fact_type),
                    content |-> JStr(fact.content)]))

\* serde_json::from_slice::<AgentFact>: an object with the four fields, each of its type
DeserializeFact(bytes) ==
    LET r == from_str(bytes)
        v == r.val
    IN IF r.ok /\ v.t = "obj"
          /\ {"agent_id", "timestamp", "fact_type", "content"} \subseteq DOMAIN v.m
          /\ v.m["agent_id"].t = "str" /\ v.m["fact_type"].t = "str" /\ v.m["content"].t = "str"
          /\ v.m["timestamp"].t = "num" /\ v.m["timestamp"].n \in 0..U64_MAX
       THEN Ok([agent_id |-> v.m["agent_id"].s,
                timestamp |-> v.m["timestamp"].n,
                fact_type |-> v.m["fact_type"].s,
                content |-> v.m["content"].s])
       ELSE Err("not an AgentFact")

\* str::split_once('_'): the text before the first '_', or None
BeforeUnderscore(cs) ==
    LET at == {i \in DOMAIN cs : cs[i] = Underscore}
        first == CHOOSE i \in at : \A j \in at : i <= j
    IN IF at = {} THEN Err("no separator") ELSE Ok(SubSeq(cs, 1, first - 1))

RECURSIVE DigitsValueTo(_, _)
\* the number the first n digits write
DigitsValueTo(ds, n) == IF n = 0 THEN 0 ELSE 10 * DigitsValueTo(ds, n - 1) + (ds[n] - 48)

DigitsValue(ds) == DigitsValueTo(ds, Len(ds))

\* str::parse::<u64>: decimal digits, within the type's range
ParseU64(ds) ==
    IF ds # <<>> /\ (\A i \in DOMAIN ds : ds[i] \in 48..57) /\ DigitsValue(ds) <= U64_MAX
    THEN Ok(DigitsValue(ds))
    ELSE Err("not a u64")

\* sled::Tree::insert: the entry at its place in key order, replacing an entry of the same key
RECURSIVE TreeInsert(_, _, _)
TreeInsert(tree, key, value) ==
    IF tree = <<>> THEN <<[key |-> key, value |-> value]>>
    ELSE IF Head(tree).key = key THEN <<[key |-> key, value |-> value]>> \o Tail(tree)
    ELSE IF BytesLess(key, Head(tree).key) THEN <<[key |-> key, value |-> value]>> \o tree
    ELSE <<Head(tree)>> \o TreeInsert(Tail(tree), key, value)

-----------------------------------------------------------------------------
(* The fact store *)

\* record_fact_unchecked returning Ok without the flush
record_fact_unchecked_no_flush(kb, fact, fault) ==
    LET id == kb.next_id
        key == FormatKey(fact.timestamp, id)
        inserted == TreeInsert(kb.tree, key, SerializeFact(fact))
    IN IF fault = "none"
       THEN [res |-> Ok("unit"), key |-> key,
             tree |-> inserted, disk |-> kb.disk, next_id |-> id + 1]
       ELSE [res |-> Err(<<"sled", fault>>), key |-> key,
             tree |-> kb.tree, disk |-> kb.disk, next_id |-> kb.next_id]

\* PAGICoreModel::record_fact_unchecked on the store kb = [tree, disk, next_id].  `fault` names
\* the call that returns an error ("none": every call succeeds).  Gives the store after the
\* call, the key used and the result.
record_fact_unchecked(kb, fact, fault) ==
    LET id == kb.next_id
        key == FormatKey(fact.timestamp, id)
        value == SerializeFact(fact)
        inserted == TreeInsert(kb.tree, key, value)
    IN CASE fault = "open_tree" ->
              [res |-> Err(<<"sled", fault>>), key |-> key,
               tree |-> kb.tree, disk |-> kb.disk, next_id |-> kb.next_id]
         [] fault = "generate_id" ->
              [res |-> Err(<<"sled", fault>>), key |-> key,
               tree |-> kb.tree, disk |-> kb.disk, next_id |-> kb.next_id]
         [] fault = "insert" ->
              [res |-> Err(<<"sled", fault>>), key |-> key,
               tree |-> kb.tree, disk |-> kb.disk, next_id |-> id + 1]
         [] fault = "flush" ->
              [res |-> Err(<<"sled", fault>>), key |-> key,
               tree |-> inserted, disk |-> kb.disk, next_id |-> id + 1]
         [] OTHER ->
              [res |-> Ok("unit"), key |-> key,
               tree |-> inserted, disk |-> inserted, next_id |-> id + 1]

\* record_fact without the RoboticsAction exception
record_fact_write_scope_only(kb, identity, fact, fault) ==
    LET write == check_authorization(identity, "WriteFacts")
        out == record_fact_unchecked(kb, fact, fault)
    IN IF ~write.ok
       THEN [res |-> write, key |-> <<>>,
             tree |-> kb.tree, disk |-> kb.disk, next_id |-> kb.next_id]
       ELSE IF out.res.ok THEN out
       ELSE [out EXCEPT !.res = Err(<<"KB write failed", out.res.err>>)]

\* PAGICoreModel::record_fact
record_fact(kb, identity, fact, fault) ==
    LET write == check_authorization(identity, "WriteFacts")
        robotics == check_authorization(identity, "RoboticsAction")
        out == record_fact_unchecked(kb, fact, fault)
    IN IF ~write.ok /\ ~robotics.ok
       THEN [res |-> robotics, key |-> <<>>,
             tree |-> kb.tree, disk |-> kb.disk, next_id |-> kb.next_id]
       ELSE IF out.res.ok THEN out
       ELSE [out EXCEPT !.res = Err(<<"KB write failed", out.res.err>>)]

\* PAGICoreModel::retrieve_facts_by_timestamp_unchecked
retrieve_facts_by_timestamp_unchecked(tree, start_ts) ==
    LET start_ts_u64 == IF start_ts <= U64_MAX THEN start_ts ELSE U64_MAX
        Keep(e) ==
            LET ts_str == BeforeUnderscore(e.key)
            IN /\ ts_str.ok
               /\ ParseU64(ts_str.val).ok
               /\ ~(ParseU64(ts_str.val).val < start_ts_u64)
               /\ DeserializeFact(e.value).ok
        kept == SelectSeq(tree, Keep)
    IN [i \in 1..Len(kept) |-> DeserializeFact(kept[i].value).val]

\* PAGICoreModel::retrieve_facts_by_timestamp
retrieve_facts_by_timestamp(tree, identity, start_ts) ==
    LET auth == check_authorization(identity, "ReadFacts")
    IN IF ~auth.ok THEN auth ELSE Ok(retrieve_facts_by_timestamp_unchecked(tree, start_ts))

KeysOf(tree) == {tree[i].key : i \in DOMAIN tree}

-----------------------------------------------------------------------------
(* The rule engine *)

\* PAGICoreModel::default_rules
default_rules ==
    <<[id |-> rule1_id, condition_fact_type |-> s_AnalysisResult,
       condition_keyword |-> s_Failure, action_directive |-> s_rerun_deep_search],
      [id |-> rule2_id, condition_fact_type |-> s_AnalysisResult,
       condition_keyword |-> s_CYBER_ALERT, action_directive |-> s_task_cyber]>>

RECURSIVE Flatten(_)
\* the concatenation of a sequence of sequences
Flatten(seqs) == IF seqs = <<>> THEN <<>> ELSE Head(seqs) \o Flatten(Tail(seqs))

RECURSIVE InsertSorted(_, _)
InsertSorted(sorted, s) ==
    IF sorted = <<>> THEN <<s>>
    ELSE IF StrLess(s, Head(sorted)) THEN <<s>> \o sorted
    ELSE <<Head(sorted)>> \o InsertSorted(Tail(sorted), s)

RECURSIVE SortStrings(_)
\* Vec<String>::sort
SortStrings(v) ==
    IF v = <<>> THEN <<>> ELSE InsertSorted(SortStrings(SubSeq(v, 1, Len(v) - 1)), v[Len(v)])

RECURSIVE Dedup(_)
\* Vec::dedup: of consecutive equal elements the first stays
Dedup(v) ==
    IF Len(v) < 2 THEN v
    ELSE IF v[1] = v[2] THEN Dedup(Tail(v))
    ELSE <<v[1]>> \o Dedup(Tail(v))

\* the directives one fact pushes, rule by rule
DirectivesOfFact(rules, fact) ==
    LET Matches(rule) ==
            /\ fact.fact_type = rule.condition_fact_type
            /\ contains(fact.content, rule.condition_keyword)
        matching == SelectSeq(rules, Matches)
    IN [i \in DOMAIN matching |-> matching[i].action_directive]

\* apply_rules_to_facts that leaves the duplicates in
apply_rules_to_facts_no_dedup(rules, facts) ==
    SortStrings(Flatten([i \in DOMAIN facts |-> DirectivesOfFact(rules, facts[i])]))

\* PAGICoreModel::apply_rules_to_facts
apply_rules_to_facts(rules, facts) ==
    Dedup(SortStrings(Flatten([i \in DOMAIN facts |-> DirectivesOfFact(rules, facts[i])])))

\* PAGICoreModel::resolve_symbolic_directives
resolve_symbolic_directives(tree) ==
    apply_rules_to_facts(default_rules, retrieve_facts_by_timestamp_unchecked(tree, 0))

\* one rerun variant of a SearchAgent task
RerunVariant(task, variant, directives) ==
    LET parsed == from_str(task.input_data)
        payload == IF parsed.ok THEN parsed.val ELSE JObj([raw |-> JStr(task.input_data)])
        marked ==
            IF payload.t = "obj"
            THEN JObj(MapInsert(MapInsert(MapInsert(payload.m,
                          "deep", JBool(TRUE)),
                          "rerun_variant", JNum(variant)),
                          "symbolic_directives",
                          JArr([i \in DOMAIN directives |-> JStr(directives[i])])))
            ELSE payload
    IN [agent_type |-> SearchAgent, input_data |-> to_string(marked)]

\* any(|d| d.to_lowercase().contains("deep"))
wants_deep_rerun(directives) ==
    \E i \in DOMAIN directives : contains(to_lowercase(directives[i]), kw_deep)

\* apply_symbolic_directives_to_plan that pushes the rerun variants after the whole plan
apply_symbolic_directives_to_plan_variants_last(plan, directives) ==
    IF ~wants_deep_rerun(directives) THEN plan
    ELSE LET searches == SelectSeq(plan, LAMBDA task : task.agent_type = SearchAgent)
         IN plan \o Flatten([i \in DOMAIN searches |->
                                <<RerunVariant(searches[i], 1, directives),
                                  RerunVariant(searches[i], 2, directives)>>])

\* PAGICoreModel::apply_symbolic_directives_to_plan
apply_symbolic_directives_to_plan(plan, directives) ==
    IF ~wants_deep_rerun(directives) THEN plan
    ELSE Flatten([i \in DOMAIN plan |->
                    IF plan[i].agent_type # SearchAgent
                    THEN <<plan[i]>>
                    ELSE <<plan[i],
                           RerunVariant(plan[i], 1, directives),
                           RerunVariant(plan[i], 2, directives)>>])

-----------------------------------------------------------------------------
(* The planner *)

\* one element of the supplied array as a task, or the error of a missing agent_type
ParseItem(item) ==
    IF ~(HasKey(item, "agent_type") /\ item.m["agent_type"].t = "str")
    THEN Err("Task missing 'agent_type'")
    ELSE LET input_val == IF HasKey(item, "input_data") THEN item.m["input_data"] ELSE JObj(<<>>)
             input_data == IF input_val.t = "str" THEN input_val.s ELSE to_string(input_val)
         IN Ok([agent_type |-> item.m["agent_type"].s, input_data |-> input_data])

\* parse_llm_plan that puts each task in front of the ones before it
parse_llm_plan_reversed(raw) ==
    LET v == from_str(raw)
    IN IF ~v.ok THEN Err("LLM returned non-JSON plan")
       ELSE IF v.val.t # "arr" THEN Err("LLM plan must be a JSON array")
       ELSE LET arr == v.val.a
            IN IF \E i \in DOMAIN arr : ~ParseItem(arr[i]).ok
               THEN Err("Task missing 'agent_type'")
               ELSE Ok([i \in DOMAIN arr |-> ParseItem(arr[Len(arr) + 1 - i]).val])

\* parse_llm_plan that leaves out the elements without a string agent_type
parse_llm_plan_skips_untyped(raw) ==
    LET v == from_str(raw)
    IN IF ~v.ok THEN Err("LLM returned non-JSON plan")
       ELSE IF v.val.t # "arr" THEN Err("LLM plan must be a JSON array")
       ELSE LET typed == SelectSeq(v.val.a, LAMBDA item : ParseItem(item).ok)
            IN Ok([i \in DOMAIN typed |-> ParseItem(typed[i]).val])

\* PAGICoreModel::parse_llm_plan
parse_llm_plan(raw) ==
    LET v == from_str(raw)
    IN IF ~v.ok THEN Err("LLM returned non-JSON plan")
       ELSE IF v.val.t # "arr" THEN Err("LLM plan must be a JSON array")
       ELSE LET arr == v.val.a
            IN IF \E i \in DOMAIN arr : ~ParseItem(arr[i]).ok
               THEN Err("Task missing 'agent_type'")
               ELSE Ok([i \in DOMAIN arr |-> ParseItem(arr[i]).val])

\* serde_json::from_str::<ReflectionFact>: an object with the three fields, each a string
DeserializeReflection(content) ==
    LET r == from_str(content)
        v == r.val
    IN IF r.ok /\ v.t = "obj"
          /\ {"target_agent", "critique", "new_directive"} \subseteq DOMAIN v.m
          /\ v.m["target_agent"].t = "str" /\ v.m["critique"].t = "str"
          /\ v.m["new_directive"].t = "str"
       THEN Ok([target_agent |-> v.m["target_agent"].s,
                critique |-> v.m["critique"].s,
                new_directive |-> v.m["new_directive"].s])
       ELSE Err("not a ReflectionFact")

\* latest_reflection_for_agent that takes the reflections for every agent
latest_reflection_for_any_agent(tree, target_agent) ==
    LET facts == retrieve_facts_by_timestamp_unchecked(tree, 0)
        IsFor(f) == f.fact_type = ReflectionFactType /\ DeserializeReflection(f.content).ok
        found == SelectSeq(facts, IsFor)
        best == CHOOSE i \in DOMAIN found :
                    /\ \A j \in DOMAIN found : found[j].timestamp <= found[i].timestamp
                    /\ \A j \in DOMAIN found : found[j].timestamp = found[i].timestamp => j <= i
    IN IF found = <<>> THEN Err("None") ELSE Ok(DeserializeReflection(found[best].content).val)

\* latest_reflection_for_agent that takes the reflection with the least timestamp
earliest_reflection_for_agent(tree, target_agent) ==
    LET facts == retrieve_facts_by_timestamp_unchecked(tree, 0)
        IsFor(f) ==
            /\ f.fact_type = ReflectionFactType
            /\ DeserializeReflection(f.content).ok
            /\ DeserializeReflection(f.content).val.target_agent = target_agent
        found == SelectSeq(facts, IsFor)
        best == CHOOSE i \in DOMAIN found :
                    /\ \A j \in DOMAIN found : found[i].timestamp <= found[j].timestamp
                    /\ \A j \in DOMAIN found : found[j].timestamp = found[i].timestamp => i <= j
    IN IF found = <<>> THEN Err("None") ELSE Ok(DeserializeReflection(found[best].content).val)

\* PAGICoreModel::latest_reflection_for_agent: of the reflections for the agent the one with
\* the greatest timestamp, the last of them in store order (Iterator::max_by_key)
latest_reflection_for_agent(tree, target_agent) ==
    LET facts == retrieve_facts_by_timestamp_unchecked(tree, 0)
        IsFor(f) ==
            /\ f.fact_type = ReflectionFactType
            /\ DeserializeReflection(f.content).ok
            /\ DeserializeReflection(f.content).val.target_agent = target_agent
        found == SelectSeq(facts, IsFor)
        best == CHOOSE i \in DOMAIN found :
                    /\ \A j \in DOMAIN found : found[j].timestamp <= found[i].timestamp
                    /\ \A j \in DOMAIN found : found[j].timestamp = found[i].timestamp => j <= i
    IN IF found = <<>> THEN Err("None") ELSE Ok(DeserializeReflection(found[best].content).val)

\* lowered.contains("siem") || lowered.contains("crowdstrike") || lowered.contains("rapid7")
IsSecurityPrompt(lowered) ==
    contains(lowered, kw_siem) \/ contains(lowered, kw_crowdstrike) \/ contains(lowered, kw_rapid7)

\* the two tasks of the default plan
SearchTask ==
    [agent_type |-> SearchAgent,
     input_data |-> to_string(JObj([query |-> JStr(s_base_query),
                                    deliverable |-> JStr(s_base_deliverable)]))]

CalendarTask ==
    [agent_type |-> CalendarAgent,
     input_data |-> to_string(JObj([title |-> JStr(s_cal_title),
                                    timeframe |-> JStr(s_cal_timeframe),
                                    agenda |-> JStr(s_cal_agenda)]))]

base_plan == <<SearchTask, CalendarTask>>

\* one search subtask of the plan a reflection expands
SplitTask(query, deliverable, new_directive) ==
    [agent_type |-> SearchAgent,
     input_data |-> to_string(JObj([query |-> JStr(query),
                                    deliverable |-> JStr(deliverable),
                                    directive_applied |-> JStr(new_directive)]))]

\* general_reasoning_fallback that looks at the reflection before the directives
general_reasoning_fallback_reflection_first(tree, prompt) ==
    LET normalized == trim(prompt)
        lowered == to_lowercase(normalized)
        directives == resolve_symbolic_directives(tree)
        reflection == latest_reflection_for_agent(tree, SearchAgent)
        directive == to_lowercase(reflection.val.new_directive)
    IN IF IsSecurityPrompt(lowered)
       THEN Ok(<<[agent_type |-> CybersecurityAgent,
                  input_data |-> to_string(JObj([action |-> JStr(s_triage_alert),
                                                 source_prompt |-> JStr(normalized)]))]>>)
       ELSE IF normalized # example_prompt
       THEN Err("No planning rule matched this prompt (stub planner).")
       ELSE IF reflection.ok /\ (contains(directive, kw_split) \/ contains(directive, kw_concurr))
       THEN Ok(<<SplitTask(s_q_overview, s_d_overview, reflection.val.new_directive),
                 SplitTask(s_q_mech, s_d_mech, reflection.val.new_directive),
                 SplitTask(s_q_seno, s_d_seno, reflection.val.new_directive),
                 CalendarTask>>)
       ELSE IF directives # <<>>
       THEN Ok(apply_symbolic_directives_to_plan(base_plan, directives))
       ELSE Ok(base_plan)

\* general_reasoning_fallback that applies the directives to the default plan for any prompt
general_reasoning_fallback_directives_first(tree, prompt) ==
    LET normalized == trim(prompt)
        lowered == to_lowercase(normalized)
        directives == resolve_symbolic_directives(tree)
    IN IF IsSecurityPrompt(lowered)
       THEN Ok(<<[agent_type |-> CybersecurityAgent,
                  input_data |-> to_string(JObj([action |-> JStr(s_triage_alert),
                                                 source_prompt |-> JStr(normalized)]))]>>)
       ELSE IF directives # <<>>
       THEN Ok(apply_symbolic_directives_to_plan(base_plan, directives))
       ELSE IF normalized # example_prompt
       THEN Err("No planning rule matched this prompt (stub planner).")
       ELSE Ok(base_plan)

\* PAGICoreModel::general_reasoning_fallback
general_reasoning_fallback(tree, prompt) ==
    LET normalized == trim(prompt)
        lowered == to_lowercase(normalized)
        directives == resolve_symbolic_directives(tree)
        reflection == latest_reflection_for_agent(tree, SearchAgent)
        directive == to_lowercase(reflection.val.new_directive)
    IN IF IsSecurityPrompt(lowered)
       THEN Ok(<<[agent_type |-> CybersecurityAgent,
                  input_data |-> to_string(JObj([action |-> JStr(s_triage_alert),
                                                 source_prompt |-> JStr(normalized)]))]>>)
       ELSE IF normalized # example_prompt
       THEN Err("No planning rule matched this prompt (stub planner).")
       ELSE IF directives # <<>>
       THEN Ok(apply_symbolic_directives_to_plan(base_plan, directives))
       ELSE IF reflection.ok /\ (contains(directive, kw_split) \/ contains(directive, kw_concurr))
       THEN Ok(<<SplitTask(s_q_overview, s_d_overview, reflection.val.new_directive),
                 SplitTask(s_q_mech, s_d_mech, reflection.val.new_directive),
                 SplitTask(s_q_seno, s_d_seno, reflection.val.new_directive),
                 CalendarTask>>)
       ELSE Ok(base_plan)

\* the value of PAGI_DISABLE_LLM that disables the supplied plan
s_one == "1"

\* general_reasoning that returns the supplied plan without applying the directives
general_reasoning_keeps_supplied_plan(tree, prompt, llm_response_json, PAGI_DISABLE_LLM) ==
    LET lowered == to_lowercase(prompt)
        parsed == parse_llm_plan(llm_response_json)
    IN IF IsSecurityPrompt(lowered)
       THEN general_reasoning_fallback(tree, prompt)
       ELSE IF is_empty(trim(llm_response_json)) \/ PAGI_DISABLE_LLM = <<s_one>>
       THEN general_reasoning_fallback(tree, prompt)
       ELSE IF parsed.ok /\ parsed.val # <<>>
       THEN Ok(parsed.val)
       ELSE general_reasoning_fallback(tree, prompt)

\* general_reasoning that looks at the supplied plan before the security keywords
general_reasoning_plan_first(tree, prompt, llm_response_json, PAGI_DISABLE_LLM) ==
    LET parsed == parse_llm_plan(llm_response_json)
        directives == resolve_symbolic_directives(tree)
    IN IF is_empty(trim(llm_response_json)) \/ PAGI_DISABLE_LLM = <<s_one>>
       THEN general_reasoning_fallback(tree, prompt)
       ELSE IF parsed.ok /\ parsed.val # <<>>
       THEN IF directives = <<>>
            THEN Ok(parsed.val)
            ELSE Ok(apply_symbolic_directives_to_plan(parsed.val, directives))
       ELSE general_reasoning_fallback(tree, prompt)

\* PAGICoreModel::general_reasoning.  PAGI_DISABLE_LLM is the environment variable: <<>> when
\* unset, <<value>> when set.
general_reasoning(tree, prompt, llm_response_json, PAGI_DISABLE_LLM) ==
    LET lowered == to_lowercase(prompt)
        parsed == parse_llm_plan(llm_response_json)
        directives == resolve_symbolic_directives(tree)
    IN IF IsSecurityPrompt(lowered)
       THEN general_reasoning_fallback(tree, prompt)
       ELSE IF is_empty(trim(llm_response_json)) \/ PAGI_DISABLE_LLM = <<s_one>>
       THEN general_reasoning_fallback(tree, prompt)
       ELSE IF parsed.ok /\ parsed.val # <<>>
       THEN IF directives = <<>>
            THEN Ok(parsed.val)
            ELSE Ok(apply_symbolic_directives_to_plan(parsed.val, directives))
       ELSE general_reasoning_fallback(tree, prompt)


-----------------------------------------------------------------------------
(* The listener of the status channel *)

\* An instance together with the path it binds is the record
\* [ipc_listener, ipc_initialized, socket_path, bound_listeners].  The field ipc_name always
\* holds PAGI_IPC_NAME, the one path of the model.  `steps` lists the calls on the path and
\* the store that a call makes, in the order it makes them.

\* init_ipc_server without the early return of an instance that holds a listener
init_ipc_server_always_binds(self, fault) ==
    IF fault = "bind"
    THEN [res |-> Err(<<"Failed to bind IPC server", fault>>),
          steps |-> <<"remove_file", "bind">>,
          ipc_listener |-> self.ipc_listener, ipc_initialized |-> self.ipc_initialized,
          socket_path |-> <<>>, bound_listeners |-> self.bound_listeners]
    ELSE [res |-> Ok("unit"),
          steps |-> <<"remove_file", "bind">>,
          ipc_listener |-> <<self.bound_listeners + 1>>, ipc_initialized |-> TRUE,
          socket_path |-> <<self.bound_listeners + 1>>,
          bound_listeners |-> self.bound_listeners + 1]

\* PAGICoreModel::init_ipc_server (unix).  fault = "bind": LocalSocketListener::bind returns
\* an error.  The file at the path is removed before the bind, whoever made it.
init_ipc_server(self, fault) ==
    IF self.ipc_listener # <<>>
    THEN [res |-> Ok("unit"),
          steps |-> <<>>,
          ipc_listener |-> self.ipc_listener, ipc_initialized |-> self.ipc_initialized,
          socket_path |-> self.socket_path, bound_listeners |-> self.bound_listeners]
    ELSE IF fault = "bind"
    THEN [res |-> Err(<<"Failed to bind IPC server", fault>>),
          steps |-> <<"remove_file", "bind">>,
          ipc_listener |-> self.ipc_listener, ipc_initialized |-> self.ipc_initialized,
          socket_path |-> <<>>, bound_listeners |-> self.bound_listeners]
    ELSE [res |-> Ok("unit"),
          steps |-> <<"remove_file", "bind">>,
          ipc_listener |-> <<self.bound_listeners + 1>>, ipc_initialized |-> TRUE,
          socket_path |-> <<self.bound_listeners + 1>>,
          bound_listeners |-> self.bound_listeners + 1]

\* PAGICoreModel::take_ipc_listener: Option::take
take_ipc_listener(self) ==
    [res |-> self.ipc_listener, ipc_listener |-> <<>>]

\* drop that goes on when the flush fails
drop_ignores_flush_failure(self, kb, fault) ==
    [res |-> "done",
     steps |-> IF self.ipc_initialized THEN <<"flush", "take", "remove_file">>
               ELSE <<"flush", "take">>,
     disk |-> IF fault = "flush" THEN kb.disk ELSE kb.tree,
     ipc_listener |-> <<>>,
     socket_path |-> IF self.ipc_initialized THEN <<>> ELSE self.socket_path]

\* drop that removes the file when the instance still holds its listener
drop_unlinks_for_held_listener(self, kb, fault) ==
    IF fault = "flush"
    THEN [res |-> "panic", steps |-> <<"flush">>, disk |-> kb.disk,
          ipc_listener |-> <<>>, socket_path |-> self.socket_path]
    ELSE [res |-> "done",
          steps |-> IF self.ipc_listener # <<>> THEN <<"flush", "take", "remove_file">>
                    ELSE <<"flush", "take">>,
          disk |-> kb.tree,
          ipc_listener |-> <<>>,
          socket_path |-> IF self.ipc_listener # <<>> THEN <<>> ELSE self.socket_path]

\* Drop for PAGICoreModel (unix), on the store kb = [tree, disk].  fault = "flush":
\* knowledge_base.flush() returns an error and expect panics, so nothing after it in drop is
\* run; the listener field goes with the instance.
drop(self, kb, fault) ==
    IF fault = "flush"
    THEN [res |-> "panic", steps |-> <<"flush">>, disk |-> kb.disk,
          ipc_listener |-> <<>>, socket_path |-> self.socket_path]
    ELSE [res |-> "done",
          steps |-> IF self.ipc_initialized THEN <<"flush", "take", "remove_file">>
                    ELSE <<"flush", "take">>,
          disk |-> kb.tree,
          ipc_listener |-> <<>>,
          socket_path |-> IF self.ipc_initialized THEN <<>> ELSE self.socket_path]

\* there is no second instance
NoHelper == [alive |-> FALSE, ipc_listener |-> <<>>, ipc_initialized |-> FALSE, log |-> <<>>]
-----------------------------------------------------------------------------
(* Inputs *)

\* "agent-a"
in_agent_a == Str(<<97, 103, 101, 110, 116, 45, 97>>)
\* "agent-b"
in_agent_b == Str(<<97, 103, 101, 110, 116, 45, 98>>)
\* "all good"
in_content_ok == Str(<<97, 108, 108, 32, 103, 111, 111, 100>>)

\* generate_id is monotonic, not contiguous: a database handed to from_db may have given ids before
StartIds == {0, 9}

ScopeSets ==
    {{}, {"ReadFacts"}, {"WriteFacts"}, {"RoboticsAction"},
     {"WriteFacts", "WritePolicy", "ExternalAPI", "RoboticsAction"}}

Identities == {[id |-> in_agent_a, scopes |-> s] : s \in ScopeSets}

AnalysisOk(agent_id, timestamp) ==
    [agent_id |-> agent_id, timestamp |-> timestamp, fact_type |-> s_AnalysisResult,
     content |-> in_content_ok]

\* two facts of one timestamp, and one of the largest timestamp
StoreFacts == {AnalysisOk(in_agent_a, 1), AnalysisOk(in_agent_b, 1), AnalysisOk(in_agent_a, U64_MAX)}

Faults == {"none", "open_tree", "generate_id", "insert", "flush"}

Writer == [id |-> in_agent_a, scopes |-> {"WriteFacts"}]

\* every identity writes with no fault; the identity that may write meets every fault
RecordCalls ==
    {<<identity, AnalysisOk(in_agent_b, 1), "none">> : identity \in Identities}
        \cup {<<Writer, fact, fault>> : fact \in StoreFacts, fault \in Faults}

\* start_ts is a u128
StartTimestamps == {0, 2, U64_MAX, U64_MAX + 1, U128_MAX}

Reader == [id |-> in_agent_a, scopes |-> {"ReadFacts"}]

\* every identity reads from 0; the identity that may read reads from every start
RetrieveCalls ==
    {<<identity, 0>> : identity \in Identities} \cup {<<Reader, start_ts>> : start_ts \in StartTimestamps}


\* contents of AnalysisResult facts
\* "Failure: SearchAgent timeout"
in_c_failure == Str(<<70, 97, 105, 108, 117, 114, 101, 58, 32, 83, 101, 97, 114, 99, 104, 65,
    103, 101, 110, 116, 32, 116, 105, 109, 101, 111, 117, 116>>)
\* "CYBER_ALERT on host-7"
in_c_cyber == Str(<<67, 89, 66, 69, 82, 95, 65, 76, 69, 82, 84, 32, 111, 110, 32, 104, 111, 115,
    116, 45, 55>>)
\* "failure and cyber_alert"
in_c_lower == Str(<<102, 97, 105, 108, 117, 114, 101, 32, 97, 110, 100, 32, 99, 121, 98, 101,
    114, 95, 97, 108, 101, 114, 116>>)
\* "CYBER_ALERT then Failure"
in_c_both == Str(<<67, 89, 66, 69, 82, 95, 65, 76, 69, 82, 84, 32, 116, 104, 101, 110, 32, 70,
    97, 105, 108, 117, 114, 101>>)

\* prompts
\* "SIEM alert on host-7"
in_p_siem == Str(<<83, 73, 69, 77, 32, 97, 108, 101, 114, 116, 32, 111, 110, 32, 104, 111, 115,
    116, 45, 55>>)
\* "  check CrowdStrike now\n"
in_p_crowd == Str(<<32, 32, 99, 104, 101, 99, 107, 32, 67, 114, 111, 119, 100, 83, 116, 114,
    105, 107, 101, 32, 110, 111, 119, 10>>)
\* "rapid7"
in_p_rapid7 == Str(<<114, 97, 112, 105, 100, 55>>)
\* the example request in small letters
in_p_example_lower == to_lowercase(example_prompt)
\* "hello"
in_p_hello == Str(<<104, 101, 108, 108, 111>>)
\* "  Please research the top anti-aging compounds and schedule a team meeting for next week to present the findings.\n"
in_p_example_ws == Str(<<32, 32, 80, 108, 101, 97, 115, 101, 32, 114, 101, 115, 101, 97, 114,
    99, 104, 32, 116, 104, 101, 32, 116, 111, 112, 32, 97, 110, 116, 105, 45, 97, 103, 105, 110,
    103, 32, 99, 111, 109, 112, 111, 117, 110, 100, 115, 32, 97, 110, 100, 32, 115, 99, 104,
    101, 100, 117, 108, 101, 32, 97, 32, 116, 101, 97, 109, 32, 109, 101, 101, 116, 105, 110,
    103, 32, 102, 111, 114, 32, 110, 101, 120, 116, 32, 119, 101, 101, 107, 32, 116, 111, 32,
    112, 114, 101, 115, 101, 110, 116, 32, 116, 104, 101, 32, 102, 105, 110, 100, 105, 110, 103,
    115, 46, 10>>)

\* fields of reflections, payloads and directives
\* "too slow"
in_critique == Str(<<116, 111, 111, 32, 115, 108, 111, 119>>)
\* "Split the query into parts"
in_d_split == Str(<<83, 112, 108, 105, 116, 32, 116, 104, 101, 32, 113, 117, 101, 114, 121, 32,
    105, 110, 116, 111, 32, 112, 97, 114, 116, 115>>)
\* "Cite primary sources"
in_d_cite == Str(<<67, 105, 116, 101, 32, 112, 114, 105, 109, 97, 114, 121, 32, 115, 111, 117,
    114, 99, 101, 115>>)
\* "Run the searches concurrently"
in_d_concurr == Str(<<82, 117, 110, 32, 116, 104, 101, 32, 115, 101, 97, 114, 99, 104, 101, 115,
    32, 99, 111, 110, 99, 117, 114, 114, 101, 110, 116, 108, 121>>)
\* "longevity"
in_query == Str(<<108, 111, 110, 103, 101, 118, 105, 116, 121>>)
\* "plain words"
in_plain == Str(<<112, 108, 97, 105, 110, 32, 119, 111, 114, 100, 115>>)
\* "GO DEEPER"
in_go_deeper == Str(<<71, 79, 32, 68, 69, 69, 80, 69, 82>>)
\* "searchagent"
in_searchagent_lower == Str(<<115, 101, 97, 114, 99, 104, 97, 103, 101, 110, 116>>)
\* "not json"
in_not_json == Str(<<110, 111, 116, 32, 106, 115, 111, 110>>)
\* "  \n"
in_blank == Str(<<32, 32, 10>>)

\* the fact lists handed to apply_rules_to_facts
RuleFacts ==
    {[agent_id |-> in_agent_a, timestamp |-> 1, fact_type |-> s_AnalysisResult, content |-> c] :
        c \in {in_c_failure, in_c_cyber, in_c_lower, in_c_both}}
        \cup {[agent_id |-> in_agent_a, timestamp |-> 1, fact_type |-> ReflectionFactType,
               content |-> in_c_failure]}

SeqsUpTo(S, n) == UNION {[1..k -> S] : k \in 0..n}

RuleFactLists == SeqsUpTo(RuleFacts, MaxRuleFacts)

\* the plans and directive lists handed to apply_symbolic_directives_to_plan
TaskPool ==
    {[agent_type |-> SearchAgent, input_data |-> to_string(JObj([query |-> JStr(in_query)]))],
     [agent_type |-> SearchAgent, input_data |-> in_plain],
     [agent_type |-> SearchAgent, input_data |-> to_string(JNum(5))],
     [agent_type |-> in_searchagent_lower, input_data |-> in_plain],
     CalendarTask}

Plans == SeqsUpTo(TaskPool, MaxPlanLen)

DirectiveLists ==
    {<<>>, <<s_rerun_deep_search>>, <<s_task_cyber>>, <<in_go_deeper>>,
     <<s_rerun_deep_search, s_task_cyber>>}

\* the facts recorded before a call of general_reasoning
ReflectionContent(target_agent, new_directive) ==
    to_string(JObj([target_agent |-> JStr(target_agent), critique |-> JStr(in_critique),
                    new_directive |-> JStr(new_directive)]))

PlanFacts ==
    {[agent_id |-> in_agent_a, timestamp |-> 1, fact_type |-> s_AnalysisResult,
      content |-> in_c_failure],
     [agent_id |-> in_agent_a, timestamp |-> 1, fact_type |-> s_AnalysisResult,
      content |-> in_c_cyber],
     [agent_id |-> in_agent_b, timestamp |-> 1, fact_type |-> ReflectionFactType,
      content |-> ReflectionContent(SearchAgent, in_d_split)],
     [agent_id |-> in_agent_b, timestamp |-> 2, fact_type |-> ReflectionFactType,
      content |-> ReflectionContent(SearchAgent, in_d_cite)],
     [agent_id |-> in_agent_b, timestamp |-> 2, fact_type |-> ReflectionFactType,
      content |-> ReflectionContent(CalendarAgent, in_d_split)],
     [agent_id |-> in_agent_b, timestamp |-> 3, fact_type |-> ReflectionFactType,
      content |-> ReflectionContent(SearchAgent, in_d_concurr)]}

\* supplied plan texts
in_llm_empty == Str(<<>>)

in_llm_object == to_string(JObj([agent_type |-> JStr(SearchAgent)]))

in_llm_empty_array == to_string(JArr(<<>>))

in_llm_missing_type ==
    to_string(JArr(<<JObj([agent_type |-> JStr(CalendarAgent)]),
                     JObj([input_data |-> JStr(in_plain)])>>))

\* a plan of three tasks, the text starting with a space
in_llm_plan ==
    [kind |-> "json", pad |-> 1,
     value |-> JArr(<<JObj([agent_type |-> JStr(CalendarAgent)]),
                      JObj([agent_type |-> JStr(SearchAgent),
                            input_data |-> JObj([query |-> JStr(in_query)])]),
                      JObj([agent_type |-> JStr(CybersecurityAgent),
                            input_data |-> JStr(in_plain)])>>)]

in_llm_plan_search_first ==
    to_string(JArr(<<JObj([agent_type |-> JStr(SearchAgent), input_data |-> JStr(in_plain)]),
                     JObj([agent_type |-> JStr(CalendarAgent), input_data |-> JNum(5)])>>))

LlmResponses ==
    {in_llm_empty, in_blank, in_not_json, in_llm_object, in_llm_empty_array,
     in_llm_missing_type, in_llm_plan, in_llm_plan_search_first}

Unset == <<>>
Disabled == <<s_one>>
\* the variable set to a value other than "1"
in_env_zero == <<"0">>

\* the calls of general_reasoning: <<prompt, llm_response_json, PAGI_DISABLE_LLM>>
PlanCalls ==
    {<<p, in_llm_empty, Unset>> : p \in {in_p_siem, in_p_crowd}}
        \cup {<<p, in_not_json, Unset>> : p \in {in_p_siem, in_p_crowd}}
        \cup {<<p, in_llm_plan, env>> : p \in {in_p_siem, in_p_crowd, in_p_rapid7},
                                        env \in {Unset, Disabled}}
        \cup {<<example_prompt, llm, Unset>> : llm \in LlmResponses}
        \cup {<<example_prompt, in_llm_plan, Disabled>>}
        \cup {<<in_p_example_ws, llm, Unset>> : llm \in {in_llm_empty, in_llm_plan_search_first}}
        \cup {<<in_p_hello, llm, Unset>> : llm \in {in_llm_empty, in_not_json, in_llm_plan}}
        \cup {<<in_p_hello, llm, in_env_zero>> : llm \in {in_llm_plan, in_llm_missing_type}}
        \cup {<<in_p_hello, in_llm_plan, Disabled>>}
        \cup {<<in_p_example_lower, in_llm_empty, Unset>>}

-----------------------------------------------------------------------------
(* Calls *)

\* A call of record_fact.  A run draws at most MaxFacts ids, so the tree holds at most
\* MaxFacts entries.
RecordFact(identity, fact, fault) ==
    /\ \E first \in StartIds : first <= next_id /\ next_id < first + MaxFacts
    /\ LET out == record_fact([tree |-> facts_tree, disk |-> disk, next_id |-> next_id],
                              identity, fact, fault)
       IN /\ facts_tree' = out.tree
          /\ disk' = out.disk
          /\ next_id' = out.next_id
          /\ history' = IF out.tree # facts_tree
                        THEN Append(history, [key |-> out.key, fact |-> fact, acked |-> out.res.ok])
                        ELSE history
          /\ last' = [op |-> "record_fact", identity |-> identity, fact |-> fact,
                      fault |-> fault, res |-> out.res]
          /\ UNCHANGED ipc_vars
          /\ UNCHANGED in_flight

\* A call of retrieve_facts_by_timestamp
RetrieveFacts(identity, start_ts) ==
    /\ last' = [op |-> "retrieve_facts_by_timestamp", identity |-> identity,
                start_ts |-> start_ts,
                res |-> retrieve_facts_by_timestamp(facts_tree, identity, start_ts)]
    /\ UNCHANGED <<facts_tree, disk, next_id, history>>
    /\ UNCHANGED ipc_vars
    /\ UNCHANGED in_flight

\* The process ends, with or without having run Drop, and a later one opens the database
\* again by PAGICoreModel::new: the tree is what had been flushed, the instance holds no
\* listener, and a socket file that was not removed is still there.
Reopen ==
    /\ facts_tree' = disk
    /\ history' = SelectSeq(history, LAMBDA e : e.acked \/ e.key \in KeysOf(disk))
    /\ last' = [op |-> "new"]
    /\ ipc_listener' = <<>>
    /\ ipc_initialized' = FALSE
    /\ socket_path' = IF socket_path = <<>> THEN <<>> ELSE <<0>>
    /\ bound_listeners' = 0
    /\ ipc_log' = <<>>
    /\ helper_core' = NoHelper
    /\ in_flight' = {}
    /\ UNCHANGED <<disk, next_id>>

-----------------------------------------------------------------------------
(* The fact store and the gate: record, query, restart *)

\* the fields from_db and new give an instance, in a process that has bound no listener, has
\* no second instance and no call under way
NewInstance ==
    /\ ipc_listener = <<>>
    /\ ipc_initialized = FALSE
    /\ bound_listeners = 0
    /\ ipc_log = <<>>
    /\ helper_core = NoHelper
    /\ in_flight = {}

Init ==
    /\ facts_tree = <<>>
    /\ disk = <<>>
    /\ next_id \in StartIds
    /\ history = <<>>
    /\ last = [op |-> "from_db"]
    /\ NewInstance
    /\ socket_path = <<>>

Next ==
    \/ \E call \in RecordCalls : RecordFact(call[1], call[2], call[3])
    \/ \E call \in RetrieveCalls : RetrieveFacts(call[1], call[2])
    \/ Reopen

Spec == Init /\ [][Next]_vars


-----------------------------------------------------------------------------
(* The rule engine alone: the arguments are drawn first, then the function is applied *)

EmptyStore ==
    /\ facts_tree = <<>>
    /\ disk = <<>>
    /\ next_id = 0
    /\ history = <<>>
    /\ NewInstance
    /\ socket_path = <<>>

InitRules ==
    /\ EmptyStore
    /\ last \in {[op |-> "arguments", facts |-> facts] : facts \in RuleFactLists}

\* A call of apply_rules_to_facts
ApplyRules ==
    /\ last.op = "arguments"
    /\ last' = [op |-> "apply_rules_to_facts", facts |-> last.facts,
                res |-> apply_rules_to_facts(default_rules, last.facts)]
    /\ UNCHANGED <<facts_tree, disk, next_id, history>>
    /\ UNCHANGED ipc_vars
    /\ UNCHANGED in_flight

SpecRules == InitRules /\ [][ApplyRules]_vars

InitDirectives ==
    /\ EmptyStore
    /\ last \in {[op |-> "arguments", plan |-> plan, directives |-> directives] :
                    plan \in Plans, directives \in DirectiveLists}

\* A call of apply_symbolic_directives_to_plan
ApplyDirectives ==
    /\ last.op = "arguments"
    /\ last' = [op |-> "apply_symbolic_directives_to_plan", plan |-> last.plan,
                directives |-> last.directives,
                res |-> apply_symbolic_directives_to_plan(last.plan, last.directives)]
    /\ UNCHANGED <<facts_tree, disk, next_id, history>>
    /\ UNCHANGED ipc_vars
    /\ UNCHANGED in_flight

SpecDirectives == InitDirectives /\ [][ApplyDirectives]_vars

-----------------------------------------------------------------------------
(* The planner over the fact store *)

\* A call of general_reasoning
GeneralReasoning(prompt, llm_response_json, PAGI_DISABLE_LLM) ==
    /\ last' = [op |-> "general_reasoning", prompt |-> prompt,
                llm_response_json |-> llm_response_json, env |-> PAGI_DISABLE_LLM,
                res |-> general_reasoning(facts_tree, prompt, llm_response_json, PAGI_DISABLE_LLM)]
    /\ UNCHANGED <<facts_tree, disk, next_id, history>>
    /\ UNCHANGED ipc_vars
    /\ UNCHANGED in_flight

InitPlan == Init /\ next_id = 0

NextPlan ==
    \/ \E fact \in PlanFacts : RecordFact(Writer, fact, "none")
    \/ \E call \in PlanCalls : GeneralReasoning(call[1], call[2], call[3])

SpecPlan == InitPlan /\ [][NextPlan]_vars


-----------------------------------------------------------------------------
(* The life of an instance: the listener, the store, disposal *)

\* the instance and the path, as the operators take them
Self ==
    [ipc_listener |-> ipc_listener, ipc_initialized |-> ipc_initialized,
     socket_path |-> socket_path, bound_listeners |-> bound_listeners]

\* the instance has not been dropped
Alive == last.op # "drop"

InitFaults == {"none", "bind"}
DropFaults == {"none", "flush"}
IpcRecordFaults == {"none", "flush"}

\* A call of init_ipc_server.  The log keeps the calls it made on the path and the
\* listener the instance holds when it returns.
InitIpcServer(fault) ==
    /\ Alive
    /\ Len(ipc_log) < MaxIpcCalls
    /\ LET out == init_ipc_server(Self, fault)
       IN /\ ipc_listener' = out.ipc_listener
          /\ ipc_initialized' = out.ipc_initialized
          /\ socket_path' = out.socket_path
          /\ bound_listeners' = out.bound_listeners
          /\ ipc_log' = Append(ipc_log, [op |-> "init_ipc_server", fault |-> fault,
                                         res |-> out.res, steps |-> out.steps,
                                         holds |-> out.ipc_listener])
          /\ last' = [op |-> "init_ipc_server", fault |-> fault, res |-> out.res]
    /\ UNCHANGED <<facts_tree, disk, next_id, history, helper_core, in_flight>>

\* A call of take_ipc_listener
TakeIpcListener ==
    /\ Alive
    /\ Len(ipc_log) < MaxIpcCalls
    /\ LET out == take_ipc_listener(Self)
       IN /\ ipc_listener' = out.ipc_listener
          /\ ipc_log' = Append(ipc_log, [op |-> "take_ipc_listener", res |-> out.res])
          /\ last' = [op |-> "take_ipc_listener", res |-> out.res]
    /\ UNCHANGED <<facts_tree, disk, next_id, history, ipc_initialized, socket_path,
                   bound_listeners, helper_core, in_flight>>

\* The instance is dropped.  `before` keeps the instance, the path and the store as drop
\* found them.
DropModel(fault) ==
    /\ Alive
    /\ LET out == drop(Self, [tree |-> facts_tree, disk |-> disk], fault)
       IN /\ disk' = out.disk
          /\ ipc_listener' = out.ipc_listener
          /\ socket_path' = out.socket_path
          /\ last' = [op |-> "drop", fault |-> fault, res |-> out.res, steps |-> out.steps,
                      before |-> [ipc_listener |-> ipc_listener, socket_path |-> socket_path,
                                  disk |-> disk]]
    /\ UNCHANGED <<facts_tree, next_id, history, ipc_initialized, bound_listeners, ipc_log,
                   helper_core, in_flight>>

InitIpc ==
    /\ facts_tree = <<>>
    /\ disk = <<>>
    /\ next_id = 0
    /\ history = <<>>
    /\ last = [op |-> "from_db"]
    /\ NewInstance
    /\ socket_path \in {<<>>, <<0>>}

NextIpc ==
    \/ \E fault \in InitFaults : InitIpcServer(fault)
    \/ TakeIpcListener
    \/ \E fault \in DropFaults : DropModel(fault)
    \/ \E fault \in IpcRecordFaults :
          Alive /\ RecordFact(Writer, AnalysisOk(in_agent_a, 1), fault)
    \/ Reopen

SpecIpc == InitIpc /\ [][NextIpc]_vars

-----------------------------------------------------------------------------
(* Two instances in one process, made by from_db on the same database *)

\* the second instance and the path, as the operators take them
HelperSelf ==
    [ipc_listener |-> helper_core.ipc_listener, ipc_initialized |-> helper_core.ipc_initialized,
     socket_path |-> socket_path, bound_listeners |-> bound_listeners]

\* A call of init_ipc_server on the second instance
HelperInitIpcServer(fault) ==
    /\ helper_core.alive
    /\ Len(ipc_log) + Len(helper_core.log) < MaxIpcCalls
    /\ LET out == init_ipc_server(HelperSelf, fault)
       IN /\ helper_core' = [alive |-> TRUE,
                             ipc_listener |-> out.ipc_listener,
                             ipc_initialized |-> out.ipc_initialized,
                             log |-> Append(helper_core.log,
                                            [op |-> "init_ipc_server", fault |-> fault,
                                             res |-> out.res, steps |-> out.steps])]
          /\ socket_path' = out.socket_path
          /\ bound_listeners' = out.bound_listeners
    /\ UNCHANGED <<facts_tree, disk, next_id, history, last, ipc_listener, ipc_initialized,
                   ipc_log, in_flight>>

\* The second instance is dropped
HelperDrop(fault) ==
    /\ helper_core.alive
    /\ LET out == drop(HelperSelf, [tree |-> facts_tree, disk |-> disk], fault)
       IN /\ helper_core' = [alive |-> FALSE,
                             ipc_listener |-> out.ipc_listener,
                             ipc_initialized |-> helper_core.ipc_initialized,
                             log |-> Append(helper_core.log,
                                            [op |-> "drop", fault |-> fault,
                                             res |-> out.res, steps |-> out.steps])]
          /\ disk' = out.disk
          /\ socket_path' = out.socket_path
    /\ UNCHANGED <<facts_tree, next_id, history, last, ipc_listener, ipc_initialized,
                   bound_listeners, ipc_log, in_flight>>

InitTwo ==
    /\ facts_tree = <<>>
    /\ disk = <<>>
    /\ next_id = 0
    /\ history = <<>>
    /\ last = [op |-> "from_db"]
    /\ ipc_listener = <<>>
    /\ ipc_initialized = FALSE
    /\ bound_listeners = 0
    /\ ipc_log = <<>>
    /\ helper_core = [NoHelper EXCEPT !.alive = TRUE]
    /\ in_flight = {}
    /\ socket_path \in {<<>>, <<0>>}

NextTwo ==
    \/ \E fault \in InitFaults : InitIpcServer(fault)
    \/ TakeIpcListener
    \/ \E fault \in DropFaults : DropModel(fault)
    \/ \E fault \in InitFaults : HelperInitIpcServer(fault)
    \/ \E fault \in DropFaults : HelperDrop(fault)

SpecTwo == InitTwo /\ [][NextTwo]_vars

-----------------------------------------------------------------------------
(* Concurrent callers of one instance *)

\* the threads that share the instance
Callers == {"c1", "c2"}

NoScopes == [id |-> in_agent_b, scopes |-> {}]

\* two facts of one timestamp
ConcurrentFacts == {AnalysisOk(in_agent_a, 1), AnalysisOk(in_agent_b, 1)}

BeginFaults == {"none", "open_tree", "generate_id"}
FinishFaults == {"none", "insert", "flush"}

\* A caller enters record_fact and runs it up to generate_id.  A call that is denied, or in
\* which open_tree or generate_id fails, returns here; any other draws its id and stops
\* before the insert.
BeginRecord(caller, identity, fact, fault) ==
    /\ \A call \in in_flight : call.caller # caller
    /\ \E first \in StartIds : first <= next_id /\ next_id < first + MaxFacts
    /\ LET out == record_fact([tree |-> facts_tree, disk |-> disk, next_id |-> next_id],
                              identity, fact, fault)
           denied == /\ ~check_authorization(identity, "WriteFacts").ok
                     /\ ~check_authorization(identity, "RoboticsAction").ok
       IN IF denied \/ fault # "none"
          THEN /\ last' = [op |-> "record_fact", caller |-> caller, identity |-> identity,
                           fact |-> fact, fault |-> fault, key |-> <<>>, res |-> out.res]
               /\ UNCHANGED <<next_id, in_flight>>
          ELSE /\ next_id' = next_id + 1
               /\ in_flight' = in_flight \cup {[caller |-> caller, identity |-> identity,
                                                fact |-> fact, id |-> next_id]}
               /\ UNCHANGED last
    /\ UNCHANGED <<facts_tree, disk, history>>
    /\ UNCHANGED ipc_vars

\* A caller runs the rest of record_fact: the insert under the key of its id and the flush,
\* on the tree as it is now
FinishRecord(caller, fault) ==
    \E call \in in_flight :
        /\ call.caller = caller
        /\ LET out == record_fact([tree |-> facts_tree, disk |-> disk, next_id |-> call.id],
                                  call.identity, call.fact, fault)
           IN /\ facts_tree' = out.tree
              /\ disk' = out.disk
              /\ history' = IF out.tree # facts_tree
                            THEN Append(history, [key |-> out.key, fact |-> call.fact,
                                                  acked |-> out.res.ok])
                            ELSE history
              /\ last' = [op |-> "record_fact", caller |-> caller, identity |-> call.identity,
                          fact |-> call.fact, fault |-> fault, key |-> out.key, res |-> out.res]
        /\ in_flight' = in_flight \ {call}
        /\ UNCHANGED next_id
        /\ UNCHANGED ipc_vars

InitConcurrent == Init

NextConcurrent ==
    \/ \E caller \in Callers, identity \in {Writer, NoScopes}, fact \in ConcurrentFacts,
          fault \in BeginFaults :
          BeginRecord(caller, identity, fact, fault)
    \/ \E caller \in Callers, fault \in FinishFaults : FinishRecord(caller, fault)
    \/ \E start_ts \in {0, 2} : RetrieveFacts(Reader, start_ts)
    \/ RetrieveFacts(NoScopes, 0)
    \/ GeneralReasoning(example_prompt, in_llm_empty, Unset)

SpecConcurrent == InitConcurrent /\ [][NextConcurrent]_vars
-----------------------------------------------------------------------------
(* Properties of the fact store and the gate *)

\* the facts the store holds, in write order
StoredFacts == [i \in DOMAIN history |-> history[i].fact]

Count(seq, x) == Cardinality({i \in DOMAIN seq : seq[i] = x})

IsDenial(res) == ~res.ok /\ res.err[1] = "Permission denied"

HoldsFact(tree, fact) == \E i \in DOMAIN tree : DeserializeFact(tree[i].value) = Ok(fact)

\* C3: record_fact passes authorization exactly when the identity holds WriteFacts or
\* RoboticsAction; an identity holding one of them writes the fact when the store does not
\* fail, and a denied call returns a permission error and leaves the store as it was.
C3_RecordFactAuthorization ==
    [][last'.op = "record_fact" =>
         LET scopes == last'.identity.scopes
             allowed == "WriteFacts" \in scopes \/ "RoboticsAction" \in scopes
         IN /\ IsDenial(last'.res) <=> ~allowed
            /\ (allowed /\ last'.fault = "none") =>
                  /\ last'.res.ok
                  /\ Len(facts_tree') = Len(facts_tree) + 1
                  /\ HoldsFact(facts_tree', last'.fact)
            /\ ~allowed => facts_tree' = facts_tree /\ disk' = disk]_vars

\* an identity holding only RoboticsAction has written a fact
C3_Witness ==
    /\ last.op = "record_fact"
    /\ last.identity.scopes = {"RoboticsAction"}
    /\ last.res.ok
    /\ HoldsFact(facts_tree, last.fact)

\* C4: retrieve_facts_by_timestamp returns facts exactly when the identity holds ReadFacts;
\* no other scope stands in for it, and a denied caller receives an error and no fact.
C4_RetrieveNeedsReadFacts ==
    last.op = "retrieve_facts_by_timestamp" =>
        /\ last.res.ok <=> "ReadFacts" \in last.identity.scopes
        /\ last.res.ok => last.res.val = retrieve_facts_by_timestamp_unchecked(facts_tree, last.start_ts)
        /\ ~last.res.ok => IsDenial(last.res) /\ "val" \notin DOMAIN last.res

\* every scope but ReadFacts is held, the store holds a fact, and the read is denied
C4_Witness ==
    /\ last.op = "retrieve_facts_by_timestamp"
    /\ last.identity.scopes = AuthScope \ {"ReadFacts"}
    /\ facts_tree # <<>>
    /\ ~last.res.ok

\* C5 (as claimed): for every start_ts of the argument type, the query returns exactly the
\* stored facts whose timestamp is >= start_ts, in non-decreasing timestamp order.
C5_QueryFromStartTs ==
    (last.op = "retrieve_facts_by_timestamp" /\ last.res.ok) =>
        LET got == last.res.val
        IN /\ \A f \in Range(got) \cup Range(StoredFacts) :
                 Count(got, f) = IF f.timestamp >= last.start_ts THEN Count(StoredFacts, f) ELSE 0
           /\ \A i, j \in DOMAIN got : i < j => got[i].timestamp <= got[j].timestamp

\* C6 (as claimed): query(0) returns the facts of one timestamp in the order they were written.
C6_SameTimestampInWriteOrder ==
    (last.op = "retrieve_facts_by_timestamp" /\ last.res.ok /\ last.start_ts = 0) =>
        \A ts \in 0..U64_MAX :
            SelectSeq(last.res.val, LAMBDA f : f.timestamp = ts)
                = SelectSeq(StoredFacts, LAMBDA f : f.timestamp = ts)

\* C7: every fact for which record_fact returned Ok is on disk, and in the tree the process
\* reads, in every state, also after the process stopped and the database was opened again.
C7_AckedIsDurable ==
    \A i \in DOMAIN history :
        history[i].acked =>
            /\ \E j \in DOMAIN disk :
                  disk[j].key = history[i].key /\ DeserializeFact(disk[j].value) = Ok(history[i].fact)
            /\ \E j \in DOMAIN facts_tree :
                  facts_tree[j].key = history[i].key
                      /\ DeserializeFact(facts_tree[j].value) = Ok(history[i].fact)

\* a fact was acknowledged, a later write was lost by a restart, and the acknowledged one is read
C7_Witness ==
    /\ last.op = "new"
    /\ next_id \notin StartIds
    /\ \E i \in DOMAIN history : history[i].acked
    /\ Len(facts_tree) = Len(history)
    /\ \E first \in StartIds : first <= next_id /\ Len(history) < next_id - first

\* C8 (as claimed): a call of record_fact that returns an error leaves what a query returns unchanged.
C8_ErrorLeavesStoreUnchanged ==
    [][(last'.op = "record_fact" /\ ~last'.res.ok) =>
          retrieve_facts_by_timestamp_unchecked(facts_tree', 0)
              = retrieve_facts_by_timestamp_unchecked(facts_tree, 0)]_vars

-----------------------------------------------------------------------------
(* Properties of the rule engine and the planner *)

SecurityKeywords == {kw_siem, kw_crowdstrike, kw_rapid7}

\* the prompt contains a security keyword, whatever the case of its letters
MentionsSecurity(prompt) == \E kw \in SecurityKeywords : contains(to_lowercase(prompt), kw)

\* the plan is one CybersecurityAgent task whose payload is an object with this source_prompt
IsTriagePlan(res, source_prompt) ==
    /\ res.ok
    /\ Len(res.val) = 1
    /\ res.val[1].agent_type = CybersecurityAgent
    /\ from_str(res.val[1].input_data).ok
    /\ HasKey(from_str(res.val[1].input_data).val, "source_prompt")
    /\ from_str(res.val[1].input_data).val.m["source_prompt"] = JStr(source_prompt)

\* C1 (amended): for a prompt that contains a security keyword in any case, whatever the
\* supplied plan text, the disable flag and the stored facts, general_reasoning returns Ok
\* with exactly one task, of agent type CybersecurityAgent, whose payload carries the prompt
\* with its leading and trailing whitespace trimmed.
C1_SecurityFastPath ==
    (last.op = "general_reasoning" /\ MentionsSecurity(last.prompt)) =>
        IsTriagePlan(last.res, trim(last.prompt))

\* C1 (as claimed): the payload carries the prompt as it was given.
C1_PayloadIsThePrompt ==
    (last.op = "general_reasoning" /\ MentionsSecurity(last.prompt)) =>
        IsTriagePlan(last.res, last.prompt)

\* a security prompt, a supplied plan that parses, the flag unset, and a stored fact that
\* yields a directive
C1_Witness ==
    /\ last.op = "general_reasoning"
    /\ last.prompt = in_p_crowd
    /\ last.llm_response_json = in_llm_plan
    /\ last.env = Unset
    /\ resolve_symbolic_directives(facts_tree) # <<>>
    /\ IsTriagePlan(last.res, trim(last.prompt))

RECURSIVE IsSubseq(_, _)
\* the elements of a appear in b in the order of a
IsSubseq(a, b) ==
    IF a = <<>> THEN TRUE
    ELSE IF b = <<>> THEN FALSE
    ELSE IF Head(a) = Head(b) THEN IsSubseq(Tail(a), Tail(b))
    ELSE IsSubseq(a, Tail(b))

\* the supplied text is a non-empty JSON array of objects that each have a string agent_type
IsSuppliedPlan(text) ==
    /\ text.kind = "json"
    /\ text.value.t = "arr"
    /\ text.value.a # <<>>
    /\ \A i \in DOMAIN text.value.a :
          LET item == text.value.a[i]
          IN item.t = "obj" /\ "agent_type" \in DOMAIN item.m /\ item.m["agent_type"].t = "str"

\* the tasks the supplied array writes, in the order of the array
SuppliedTasks(text) ==
    [i \in DOMAIN text.value.a |->
        LET item == text.value.a[i]
        IN [agent_type |-> item.m["agent_type"].s,
            input_data |-> IF "input_data" \notin DOMAIN item.m THEN to_string(JObj(<<>>))
                           ELSE IF item.m["input_data"].t = "str" THEN item.m["input_data"].s
                           ELSE to_string(item.m["input_data"])]]

\* the call takes its plan from the supplied text
UsesSuppliedPlan(call) ==
    /\ ~MentionsSecurity(call.prompt)
    /\ call.env # Disabled
    /\ ~is_empty(trim(call.llm_response_json))
    /\ IsSuppliedPlan(call.llm_response_json)

\* the plan the result is built from: the supplied one, the default one, or none
SourcePlan(call) ==
    IF MentionsSecurity(call.prompt) THEN <<>>
    ELSE IF UsesSuppliedPlan(call) THEN SuppliedTasks(call.llm_response_json)
    ELSE IF trim(call.prompt) = example_prompt THEN base_plan
    ELSE <<>>

\* C2: a call of general_reasoning that returns Ok returns at least one task, the tasks of
\* the supplied or default plan that are in the result are there in their original order
\* (all of them when the plan was supplied); a call that returns an error returns no task.
C2_NonEmptyOrderPreserved ==
    last.op = "general_reasoning" =>
        IF last.res.ok
        THEN LET out == last.res.val
                 src == SourcePlan(last)
             IN /\ out # <<>>
                /\ IsSubseq(SelectSeq(src, LAMBDA task : task \in Range(out)), out)
                /\ UsesSuppliedPlan(last) => IsSubseq(src, out)
        ELSE "val" \notin DOMAIN last.res

\* a supplied plan of three tasks came back with its SearchAgent task expanded in place
C2_Witness ==
    /\ last.op = "general_reasoning"
    /\ last.prompt = in_p_hello
    /\ last.llm_response_json = in_llm_plan
    /\ last.res.ok
    /\ Len(last.res.val) = 5
    /\ last.res.val[1].agent_type = CalendarAgent
    /\ last.res.val[5].agent_type = CybersecurityAgent

\* C9: apply_rules_to_facts returns the action_directive of exactly the rules that some fact
\* matches (same fact_type, content containing the keyword with the same case), in strictly
\* ascending order, so without duplicates; it is a function of the set of facts.
C9_DirectivesOfMatchingRules ==
    last.op = "apply_rules_to_facts" =>
        LET out == last.res
            facts == Range(last.facts)
            Matched(rule) ==
                \E f \in facts :
                    /\ f.fact_type = rule.condition_fact_type
                    /\ contains(f.content, rule.condition_keyword)
            expected == {rule.action_directive : rule \in {r \in Range(default_rules) : Matched(r)}}
        IN /\ Range(out) = expected
           /\ \A i, j \in DOMAIN out : i < j => StrLess(out[i], out[j])
           /\ (\A f \in facts : f.content = in_c_lower \/ f.fact_type # s_AnalysisResult) => out = <<>>

\* three facts, two of them matching the same rule, give the two directives once each
C9_Witness ==
    /\ last.op = "apply_rules_to_facts"
    /\ Len(last.facts) = 3
    /\ last.facts[1].content = in_c_cyber
    /\ last.facts[2].content = in_c_failure
    /\ last.facts[3].content = in_c_both
    /\ \A i \in 1..3 : last.facts[i].fact_type = s_AnalysisResult
    /\ last.res = <<s_rerun_deep_search, s_task_cyber>>

IsSearch(task) == task.agent_type = SearchAgent

\* C10: apply_symbolic_directives_to_plan returns the plan unchanged when no directive
\* contains "deep" in any case; otherwise every task stays, in order, a task that is not a
\* SearchAgent task alone and a SearchAgent task followed at once by two SearchAgent tasks,
\* so the result has Len(plan) + 2 * (number of SearchAgent tasks) tasks.
C10_DeepRerunInPlace ==
    last.op = "apply_symbolic_directives_to_plan" =>
        LET plan == last.plan
            out == last.res
            deep == \E i \in DOMAIN last.directives :
                        contains(to_lowercase(last.directives[i]), kw_deep)
            searches == Cardinality({i \in DOMAIN plan : IsSearch(plan[i])})
            Pos(i) == i + 2 * Cardinality({j \in 1..(i - 1) : IsSearch(plan[j])})
        IN IF ~deep THEN out = plan
           ELSE /\ Len(out) = Len(plan) + 2 * searches
                /\ SelectSeq(out, LAMBDA task : ~IsSearch(task))
                       = SelectSeq(plan, LAMBDA task : ~IsSearch(task))
                /\ \A i \in DOMAIN plan :
                      /\ out[Pos(i)] = plan[i]
                      /\ IsSearch(plan[i]) => IsSearch(out[Pos(i) + 1]) /\ IsSearch(out[Pos(i) + 2])

\* a SearchAgent task followed by another task, under a directive with DEEP in capitals
C10_Witness ==
    /\ last.op = "apply_symbolic_directives_to_plan"
    /\ last.directives = <<in_go_deeper>>
    /\ Len(last.plan) = 2
    /\ IsSearch(last.plan[1])
    /\ last.plan[2] = CalendarTask
    /\ Len(last.res) = 4
    /\ last.res[4] = CalendarTask


\* the place in the result of task i of the plan, when the rerun variants were added
PlaceOf(plan, i) == i + 2 * Cardinality({j \in 1..(i - 1) : IsSearch(plan[j])})

\* the text is a JSON document whose value is an object
IsJsonObject(text) == from_str(text).ok /\ from_str(text).val.t = "obj"

\* the payload of a rerun variant: an object with the deep marker, the ordinal and the
\* directive list, and with the original text under "raw" when that was not a JSON object
IsVariantPayload(text, original, variant, directives) ==
    /\ IsJsonObject(text)
    /\ LET m == from_str(text).val.m
       IN /\ {"deep", "rerun_variant", "symbolic_directives"} \subseteq DOMAIN m
          /\ m["deep"] = JBool(TRUE)
          /\ m["rerun_variant"] = JNum(variant)
          /\ m["symbolic_directives"] = JArr([i \in DOMAIN directives |-> JStr(directives[i])])
          /\ ~IsJsonObject(original) => ("raw" \in DOMAIN m /\ m["raw"] = JStr(original))

\* C11 (as claimed): under a directive that contains "deep", the two tasks that follow a
\* SearchAgent task carry a JSON object with the deep marker set to true, the ordinal 1 and
\* 2, and the directive list, whatever the input_data of the task was; input_data that is
\* not a JSON object is wrapped under "raw" first.
C11_VariantPayloadIsMarkedObject ==
    (last.op = "apply_symbolic_directives_to_plan" /\ wants_deep_rerun(last.directives)) =>
        \A i \in DOMAIN last.plan :
            IsSearch(last.plan[i]) =>
                \A variant \in 1..2 :
                    IsVariantPayload(last.res[PlaceOf(last.plan, i) + variant].input_data,
                                     last.plan[i].input_data, variant, last.directives)

\* C11, the part the code keeps: the payload is as claimed when the input_data of the task
\* is a JSON object or is not JSON at all.
C11_ObjectOrNotJson ==
    (last.op = "apply_symbolic_directives_to_plan" /\ wants_deep_rerun(last.directives)) =>
        \A i \in DOMAIN last.plan :
            (IsSearch(last.plan[i])
               /\ (IsJsonObject(last.plan[i].input_data) \/ ~from_str(last.plan[i].input_data).ok)) =>
                \A variant \in 1..2 :
                    IsVariantPayload(last.res[PlaceOf(last.plan, i) + variant].input_data,
                                     last.plan[i].input_data, variant, last.directives)

-----------------------------------------------------------------------------
(* Properties of the tiers of the planner *)

\* the error of a prompt no tier has a plan for
NoPlanMatched == Err("No planning rule matched this prompt (stub planner).")

\* the stored facts that are not reflections
StoredAnalysisFacts == SelectSeq(StoredFacts, LAMBDA f : f.fact_type # ReflectionFactType)

\* the directives of the rules the stored facts match
StoredDirectives == apply_rules_to_facts(default_rules, StoredFacts)

\* C12: for a prompt without a security keyword, with the disable variable unset and a
\* supplied text that is a non-empty JSON array of elements with a string agent_type,
\* general_reasoning returns Ok(apply_symbolic_directives_to_plan(tasks, directives)), where
\* tasks are the elements in array order (a string input_data as it is, any other value
\* serialized) and directives are those of all stored facts; the stored reflections and the
\* prompt being the example or not make no difference.
C12_SuppliedPlanWithDirectives ==
    (/\ last.op = "general_reasoning"
     /\ ~MentionsSecurity(last.prompt)
     /\ last.env = Unset
     /\ IsSuppliedPlan(last.llm_response_json)) =>
        /\ last.res = Ok(apply_symbolic_directives_to_plan(
                             SuppliedTasks(last.llm_response_json), StoredDirectives))
        /\ last.res = Ok(apply_symbolic_directives_to_plan(
                             SuppliedTasks(last.llm_response_json),
                             apply_rules_to_facts(default_rules, StoredAnalysisFacts)))

\* the example prompt, a supplied plan of two tasks, and a store with a Failure fact and a
\* reflection that asks for a split: the search task is followed by its two variants
C12_Witness ==
    /\ last.op = "general_reasoning"
    /\ last.prompt = example_prompt
    /\ last.llm_response_json = in_llm_plan_search_first
    /\ last.env = Unset
    /\ \E i \in DOMAIN StoredFacts : StoredFacts[i].content = in_c_failure
    /\ \E i \in DOMAIN StoredFacts :
          StoredFacts[i].content = ReflectionContent(SearchAgent, in_d_split)
    /\ last.res.ok
    /\ Len(last.res.val) = 4
    /\ last.res.val[1] = [agent_type |-> SearchAgent, input_data |-> in_plain]
    /\ last.res.val[4] = [agent_type |-> CalendarAgent, input_data |-> to_string(JNum(5))]

\* the call does not take its plan from the supplied text: the text is empty or whitespace,
\* the variable disables it, or it is not a plan
HasNoUsablePlan(call) ==
    \/ is_empty(trim(call.llm_response_json))
    \/ call.env = Disabled
    \/ ~IsSuppliedPlan(call.llm_response_json)

\* the tasks of the elements of the supplied array that have a string agent_type
TypedTasks(text) ==
    IF text.kind # "json" THEN {}
    ELSE IF text.value.t # "arr" THEN {}
    ELSE {ParseItem(text.value.a[i]).val :
             i \in {j \in DOMAIN text.value.a : ParseItem(text.value.a[j]).ok}}

\* C13: when the supplied text is empty or whitespace, or PAGI_DISABLE_LLM is "1", or the
\* text is not JSON, not an array, an empty array, or has an element without a string
\* agent_type, general_reasoning returns what general_reasoning_fallback returns for the
\* prompt and the store; its only error is the one of the fallback, and when the text was
\* not a plan none of the tasks of its elements is in the result.
C13_FallbackOnUnusablePlan ==
    (last.op = "general_reasoning" /\ HasNoUsablePlan(last)) =>
        /\ last.res = general_reasoning_fallback(facts_tree, last.prompt)
        /\ ~last.res.ok => last.res = NoPlanMatched
        /\ (last.res.ok /\ ~IsSuppliedPlan(last.llm_response_json)) =>
              Range(last.res.val) \cap TypedTasks(last.llm_response_json) = {}

\* an array whose second element has no agent_type, the example prompt and a stored Failure
\* fact: the result is the default plan with the rerun variants
C13_Witness ==
    /\ last.op = "general_reasoning"
    /\ last.prompt = example_prompt
    /\ last.llm_response_json = in_llm_missing_type
    /\ last.env = Unset
    /\ TypedTasks(last.llm_response_json) # {}
    /\ StoredDirectives = <<s_rerun_deep_search>>
    /\ last.res.ok
    /\ Len(last.res.val) = 4
    /\ last.res.val[1] = SearchTask

\* new_directive mentions splitting or concurrency
MentionsSplit(new_directive) ==
    \/ contains(to_lowercase(new_directive), kw_split)
    \/ contains(to_lowercase(new_directive), kw_concurr)

\* the stored reflections addressed to the agent, as <<timestamp, new_directive>>
ReflectionsFor(target_agent) ==
    {<<StoredFacts[i].timestamp, DeserializeReflection(StoredFacts[i].content).val.new_directive>> :
        i \in {j \in DOMAIN StoredFacts :
                  /\ StoredFacts[j].fact_type = ReflectionFactType
                  /\ DeserializeReflection(StoredFacts[j].content).ok
                  /\ DeserializeReflection(StoredFacts[j].content).val.target_agent = target_agent}}

\* the reflections for the agent that have the maximum timestamp
NewestReflectionsFor(target_agent) ==
    {r \in ReflectionsFor(target_agent) : \A q \in ReflectionsFor(target_agent) : q[1] <= r[1]}

\* the call reaches the fallback with the example request and no directive applies
IsPlainExampleCall(call) ==
    /\ call.op = "general_reasoning"
    /\ ~UsesSuppliedPlan(call)
    /\ trim(call.prompt) = example_prompt
    /\ StoredDirectives = <<>>

\* C14: in the fallback, for a prompt that trimmed is the example request, when the stored
\* facts give no directive and hold no reflection for SearchAgent whose new_directive
\* mentions splitting or concurrency, general_reasoning returns exactly two tasks, a
\* SearchAgent task and then a CalendarAgent task.
C14_ExampleGivesTwoTasks ==
    (/\ IsPlainExampleCall(last)
     /\ \A r \in ReflectionsFor(SearchAgent) : ~MentionsSplit(r[2])) =>
        /\ last.res.ok
        /\ Len(last.res.val) = 2
        /\ last.res.val[1].agent_type = SearchAgent
        /\ last.res.val[2].agent_type = CalendarAgent

\* the store holds a reflection for CalendarAgent that asks for a split and a reflection for
\* SearchAgent that does not
C14_Witness ==
    /\ IsPlainExampleCall(last)
    /\ last.prompt = in_p_example_ws
    /\ \E r \in ReflectionsFor(CalendarAgent) : MentionsSplit(r[2])
    /\ ReflectionsFor(SearchAgent) # {}
    /\ \A r \in ReflectionsFor(SearchAgent) : ~MentionsSplit(r[2])
    /\ last.res = Ok(base_plan)

\* the plan of four tasks: three SearchAgent tasks that carry the directive, then the
\* CalendarAgent task of the default plan
IsExpandedPlan(res, new_directive) ==
    /\ res.ok
    /\ Len(res.val) = 4
    /\ \A i \in 1..3 :
          /\ res.val[i].agent_type = SearchAgent
          /\ IsJsonObject(res.val[i].input_data)
          /\ HasKey(from_str(res.val[i].input_data).val, "directive_applied")
          /\ from_str(res.val[i].input_data).val.m["directive_applied"] = JStr(new_directive)
    /\ res.val[4] = CalendarTask

\* C15: in the fallback for the example request, when no directive applies, the result is
\* the plan of four tasks carrying the new_directive of the reflection for SearchAgent with
\* the maximum timestamp when that new_directive mentions splitting or concurrency, and the
\* default plan of two tasks otherwise: when there is no reflection for SearchAgent, or the
\* newest one does not mention them, whatever older ones and reflections for other agents say.
C15_NewestReflectionDecides ==
    IsPlainExampleCall(last) =>
        LET newest == NewestReflectionsFor(SearchAgent)
        IN /\ (newest # {} /\ \A r \in newest : MentionsSplit(r[2])) =>
                 \E r \in newest : IsExpandedPlan(last.res, r[2])
           /\ (\A r \in newest : ~MentionsSplit(r[2])) => last.res = Ok(base_plan)

\* an older reflection for SearchAgent asks for a split, a newer one does not: the plan is
\* the default one
C15_Witness ==
    /\ IsPlainExampleCall(last)
    /\ \E r \in ReflectionsFor(SearchAgent) : MentionsSplit(r[2])
    /\ NewestReflectionsFor(SearchAgent) # {}
    /\ \A r \in NewestReflectionsFor(SearchAgent) : ~MentionsSplit(r[2])
    /\ last.res = Ok(base_plan)

\* C16: a call of general_reasoning that reaches the fallback with a prompt that has no
\* security keyword and trimmed is not exactly the example request returns the error of no
\* matching rule, whatever directives and reflections the store holds.
C16_OtherPromptsFail ==
    (/\ last.op = "general_reasoning"
     /\ ~UsesSuppliedPlan(last)
     /\ ~MentionsSecurity(last.prompt)
     /\ trim(last.prompt) # example_prompt) =>
        last.res = NoPlanMatched

\* the example request in small letters, with a stored Failure fact and a reflection for
\* SearchAgent that asks for a split
C16_Witness ==
    /\ last.op = "general_reasoning"
    /\ last.prompt = in_p_example_lower
    /\ StoredDirectives # <<>>
    /\ \E r \in ReflectionsFor(SearchAgent) : MentionsSplit(r[2])
    /\ last.res = NoPlanMatched

-----------------------------------------------------------------------------
(* Properties of the listener and of disposal *)

IsInit(e) == e.op = "init_ipc_server"
IsTake(e) == e.op = "take_ipc_listener"

\* C17: of two calls of init_ipc_server in succession of which the first returns Ok, the
\* second returns Ok at once, without removing the file or binding, and the two give one
\* listener: a take_ipc_listener after them returns the listener the instance held after
\* the first, and a second take_ipc_listener returns None.
C17_InitTwiceOneListener ==
    \A i \in DOMAIN ipc_log :
        (/\ i + 1 \in DOMAIN ipc_log
         /\ IsInit(ipc_log[i]) /\ ipc_log[i].res.ok
         /\ IsInit(ipc_log[i + 1])) =>
            /\ ipc_log[i + 1].res.ok
            /\ ipc_log[i + 1].steps = <<>>
            /\ ipc_log[i + 1].holds = ipc_log[i].holds
            /\ (i + 2 \in DOMAIN ipc_log /\ IsTake(ipc_log[i + 2])) =>
                  /\ Len(ipc_log[i + 2].res) = 1
                  /\ ipc_log[i + 2].res = ipc_log[i].holds
                  /\ (i + 3 \in DOMAIN ipc_log /\ IsTake(ipc_log[i + 3])) =>
                        ipc_log[i + 3].res = <<>>

\* init twice, the first binding over a file left by an earlier process, then take twice
C17_Witness ==
    /\ Len(ipc_log) = 4
    /\ IsInit(ipc_log[1]) /\ ipc_log[1].steps = <<"remove_file", "bind">> /\ ipc_log[1].res.ok
    /\ IsInit(ipc_log[2]) /\ ipc_log[2].fault = "bind" /\ ipc_log[2].res.ok
    /\ IsTake(ipc_log[3]) /\ ipc_log[3].res = <<1>>
    /\ IsTake(ipc_log[4]) /\ ipc_log[4].res = <<>>
    /\ socket_path = <<1>>
    /\ bound_listeners = 1

\* C18 (as claimed): on one instance, after a take_ipc_listener that returned a listener,
\* every take_ipc_listener returns None and every init_ipc_server returns Ok without
\* removing the file or binding a listener.
C18_ListenerHandedOutOnce ==
    \A i, j \in DOMAIN ipc_log :
        (i < j /\ IsTake(ipc_log[i]) /\ ipc_log[i].res # <<>>) =>
            /\ IsTake(ipc_log[j]) => ipc_log[j].res = <<>>
            /\ IsInit(ipc_log[j]) => ipc_log[j].res.ok /\ ipc_log[j].steps = <<>>

\* some call of init_ipc_server on the instance bound a listener
HasBound == \E i \in DOMAIN ipc_log : IsInit(ipc_log[i]) /\ ipc_log[i].res.ok /\ ipc_log[i].steps # <<>>

\* C19: a dropped instance removes the file at the path only if one of its calls of
\* init_ipc_server bound a listener: an instance on which init_ipc_server was never called
\* or never succeeded leaves the path as it is, and an instance that bound removes the file
\* when drop gets past the flush, whether or not it still holds the listener.
C19_UnlinkOnlyByBinder ==
    last.op = "drop" =>
        /\ "remove_file" \in Range(last.steps) => HasBound
        /\ ~HasBound => socket_path = last.before.socket_path
        /\ (HasBound /\ last.fault = "none") =>
              "remove_file" \in Range(last.steps) /\ socket_path = <<>>

\* the instance bound, its listener was taken, and drop removed the file
C19_Witness ==
    /\ last.op = "drop"
    /\ HasBound
    /\ \E i \in DOMAIN ipc_log : IsTake(ipc_log[i]) /\ ipc_log[i].res # <<>>
    /\ last.before.ipc_listener = <<>>
    /\ last.before.socket_path # <<>>
    /\ socket_path = <<>>

\* C20: drop flushes the store first, then releases the listener, then removes the file if
\* the instance bound; when the flush fails drop stops there: the listener is not released
\* by drop, no file is removed and nothing more reaches the disk.
C20_FlushThenReleaseThenUnlink ==
    last.op = "drop" =>
        IF last.fault = "flush"
        THEN /\ last.res = "panic"
             /\ last.steps = <<"flush">>
             /\ socket_path = last.before.socket_path
             /\ disk = last.before.disk
        ELSE /\ last.res = "done"
             /\ last.steps \in {<<"flush", "take">>, <<"flush", "take", "remove_file">>}
             /\ disk = facts_tree
             /\ ipc_listener = <<>>

\* an instance that bound and whose store holds an unflushed entry is dropped and the flush
\* fails: the file stays and the entry is not on disk
C20_Witness ==
    /\ last.op = "drop"
    /\ last.fault = "flush"
    /\ ipc_initialized
    /\ last.before.ipc_listener # <<>>
    /\ socket_path = last.before.ipc_listener
    /\ Len(facts_tree) > Len(disk)

-----------------------------------------------------------------------------
(* The gate in front of the planner, and directives before reflections *)

\* C21 (as claimed): a result that depends on the stored facts is given only after the
\* caller's identity has been checked: a caller without ReadFacts is denied by
\* retrieve_facts_by_timestamp, and general_reasoning, which takes no identity and so serves
\* such a caller too, returns for every store what it returns for the empty store.
C21_PlanIndependentOfStore ==
    /\ (last.op = "retrieve_facts_by_timestamp" /\ "ReadFacts" \notin last.identity.scopes) =>
          IsDenial(last.res)
    /\ last.op = "general_reasoning" =>
          last.res = general_reasoning(<<>>, last.prompt, last.llm_response_json, last.env)

\* the call reaches the fallback with the example request
IsExampleFallbackCall(call) ==
    /\ call.op = "general_reasoning"
    /\ ~UsesSuppliedPlan(call)
    /\ trim(call.prompt) = example_prompt

\* C22: in the fallback for the example request, when the stored facts give a directive the
\* result is Ok(apply_symbolic_directives_to_plan(base_plan, directives)), the same
\* whatever reflections are stored; when a stored AnalysisResult fact contains "Failure" it
\* has four tasks: the SearchAgent task, its two rerun variants and the CalendarAgent task
\* as it was.
C22_DirectivesBeforeReflection ==
    (IsExampleFallbackCall(last) /\ StoredDirectives # <<>>) =>
        /\ last.res = Ok(apply_symbolic_directives_to_plan(
                             base_plan, apply_rules_to_facts(default_rules, StoredAnalysisFacts)))
        /\ (\E i \in DOMAIN StoredFacts :
               /\ StoredFacts[i].fact_type = s_AnalysisResult
               /\ contains(StoredFacts[i].content, s_Failure)) =>
              /\ Len(last.res.val) = 4
              /\ last.res.val[1] = SearchTask
              /\ \A variant \in 1..2 :
                    /\ last.res.val[1 + variant].agent_type = SearchAgent
                    /\ IsVariantPayload(last.res.val[1 + variant].input_data,
                                        SearchTask.input_data, variant, StoredDirectives)
              /\ last.res.val[4] = CalendarTask

\* a stored Failure fact and a stored reflection for SearchAgent that asks for a split: the
\* plan has the rerun variants, not the split
C22_Witness ==
    /\ IsExampleFallbackCall(last)
    /\ StoredDirectives = <<s_rerun_deep_search>>
    /\ \E r \in NewestReflectionsFor(SearchAgent) : MentionsSplit(r[2])
    /\ last.res.ok
    /\ Len(last.res.val) = 4
    /\ HasKey(from_str(last.res.val[2].input_data).val, "deep")
    /\ ~HasKey(from_str(last.res.val[2].input_data).val, "directive_applied")

-----------------------------------------------------------------------------
(* Properties of two instances on one path *)

\* the file at the path is the socket of the listener the instance holds
HeldByFirst == Alive /\ ipc_listener # <<>> /\ socket_path = ipc_listener
HeldBySecond ==
    helper_core.alive /\ helper_core.ipc_listener # <<>> /\ socket_path = helper_core.ipc_listener

\* C23 (as claimed): while one live instance holds the listener whose socket is at the
\* path, no init_ipc_server and no drop of the other instance removes or replaces the file,
\* and an init_ipc_server of the other instance, when that one holds no listener, returns
\* an error.
C23_OtherInstanceKeepsArtifact ==
    [][/\ (HeldByFirst /\ helper_core' # helper_core) =>
             /\ socket_path' = socket_path
             /\ (helper_core.ipc_listener = <<>>
                   /\ helper_core'.log[Len(helper_core'.log)].op = "init_ipc_server") =>
                      ~helper_core'.log[Len(helper_core'.log)].res.ok
       /\ (HeldBySecond /\ helper_core' = helper_core) =>
             /\ socket_path' = socket_path
             /\ (ipc_listener = <<>> /\ ipc_log' # ipc_log /\ last'.op = "init_ipc_server") =>
                   ~last'.res.ok]_vars

-----------------------------------------------------------------------------
(* Properties of the store under concurrent callers *)

\* how many acknowledged entries of the history hold the fact
AckedCount(h, fact) == Cardinality({i \in DOMAIN h : h[i].acked /\ h[i].fact = fact})

\* C24: under every interleaving of the steps of concurrent record_fact calls with queries
\* and general_reasoning, the keys of the tree are distinct, every entry of the tree stays
\* as it is, a record_fact that returns Ok has added exactly one entry under a key the tree
\* did not have (also for facts of one timestamp), a query or a plan writes nothing, and a
\* query from 0 returns every fact whose record_fact returned Ok, as it was recorded.
C24_AppendOnlyUniqueKeys ==
    [][/\ \A i \in DOMAIN facts_tree : \E j \in DOMAIN facts_tree' : facts_tree'[j] = facts_tree[i]
       /\ \A i, j \in DOMAIN facts_tree' : i # j => facts_tree'[i].key # facts_tree'[j].key
       /\ (Cardinality(in_flight') < Cardinality(in_flight) /\ last'.res.ok) =>
             /\ Len(facts_tree') = Len(facts_tree) + 1
             /\ last'.key \notin KeysOf(facts_tree)
             /\ \E j \in DOMAIN facts_tree' :
                   /\ facts_tree'[j].key = last'.key
                   /\ DeserializeFact(facts_tree'[j].value) = Ok(last'.fact)
       /\ last'.op \in {"retrieve_facts_by_timestamp", "general_reasoning"} =>
             facts_tree' = facts_tree /\ disk' = disk
       /\ (last'.op = "retrieve_facts_by_timestamp" /\ last'.start_ts = 0 /\ last'.res.ok) =>
             \A fact \in ConcurrentFacts :
                 Count(last'.res.val, fact) >= AckedCount(history', fact)]_vars

\* two calls drew their ids, the one with the later id inserted first, both returned Ok for
\* facts of one timestamp, and a query from 0 returned both
C24_Witness ==
    /\ last.op = "retrieve_facts_by_timestamp"
    /\ last.start_ts = 0
    /\ last.res.ok
    /\ Len(last.res.val) = 2
    /\ Len(history) = 2
    /\ history[1].acked /\ history[2].acked
    /\ history[1].key = FormatKey(1, 1)
    /\ history[2].key = FormatKey(1, 0)
    /\ history[1].fact # history[2].fact
====
